---- MODULE Spec2Model ----
(***************************************************************************)
(* A model of the pipeline frame observer: ObservabilityConfig            *)
(* (observability_config.py), decode_protobuf and ProtobufMessageLog      *)
(* (protobuf_decoder.py) and PipelineObserver (pipeline_observer.py).     *)
(*                                                                         *)
(* The observer runs on one asyncio event loop.  on_push_frame has no      *)
(* await in its body, so one call is one atomic step.  A background task   *)
(* created by asyncio.create_task runs in up to two steps: from its start  *)
(* to `await self._serializer.serialize(frame)`, and from the return of    *)
(* that await to its end.  The done callback of a finished task runs in a  *)
(* later step of the loop (call_soon).  The serializer is external: it may *)
(* suspend or not, return bytes, nothing or empty bytes, or raise.         *)
(***************************************************************************)
EXTENDS Integers, Sequences, FiniteSets, TLC

VARIABLES
    config,            \* self.config, an ObservabilityConfig
    clock,             \* the latest reading of time.time() (seconds)
    _last_frame_time,  \* self._last_frame_time, None or a clock reading
    _frame_counts,     \* self._frame_counts: frame type name -> count
    _latencies,        \* self._latencies: frame type name -> sequence of ms
    _pending_tasks,    \* self._pending_tasks: set of task handles
    _session_start,    \* self._session_start
    _protobuf_log,     \* self._protobuf_log: [_counts, _bytes, _records]
    tasks,             \* the loop's unfinished tasks: handle -> task state
    nCalls,            \* history: calls of on_push_frame so far
    everReset,         \* history: whether reset was ever called
    accepted,          \* history: events that passed the policy this session
    logEv,             \* history: for each entry of _records, its event
    last,              \* history: the last operation and how it ended
    call               \* the last call of a function of the modules alone

vars == <<config, clock, _last_frame_time, _frame_counts, _latencies,
          _pending_tasks, _session_start, _protobuf_log, tasks,
          nCalls, everReset, accepted, logEv, last, call>>

\* The observer's own fields (everything on_push_frame or reset may write).
observerVars == <<_last_frame_time, _frame_counts, _latencies, _pending_tasks,
                  _session_start, _protobuf_log, tasks>>

-----------------------------------------------------------------------------
\* Bounds of the model.

\* Calls of on_push_frame in one behaviour.
MaxEvents == 2
\* Largest reading of the clock.
MaxClock == 1
\* Pieces (fields or stray bytes) of a payload handed to decode_protobuf.
MaxChunks == 2
\* Calls of record between two calls of clear on an accumulator used alone.
MaxRecords == 2
\* Latency samples of one category when get_latency_stats is called.
MaxSamples == 3
\* Bits of the significand of a float.  CPython's float has 53; the model
\* rounds to FloatBits bits, so that sums and quotients of a few small
\* samples already need rounding.
FloatBits == 3

-----------------------------------------------------------------------------
\* Values.

\* Optional[float]: None is the empty sequence, a value x is <<x>>.
None == <<>>

Some(x) == <<x>>

Value(opt) == opt[1]

\* The empty dict.
EmptyDict == [k \in {} |-> 0]

\* dict.get(key, default)
Get(d, k, default) == IF k \in DOMAIN d THEN d[k] ELSE default

\* d[k] = v on a dict
Put(d, k, v) == [x \in DOMAIN d \cup {k} |-> IF x = k THEN v ELSE d[x]]

RECURSIVE SumOver(_, _)
SumOver(d, keys) ==
    IF keys = {} THEN 0
    ELSE LET k == CHOOSE x \in keys : TRUE
         IN  d[k] + SumOver(d, keys \ {k})

\* sum(d.values())
SumValues(d) == SumOver(d, DOMAIN d)

-----------------------------------------------------------------------------
\* observability_config.py

_AUDIO_FRAMES == {"InputAudioRawFrame", "OutputAudioRawFrame"}

_TEXT_FRAMES == {"TextFrame", "TranscriptionFrame",
                 "InterimTranscriptionFrame", "LLMTextFrame"}

DefaultTruncateTextAt == 80

\* The policies an observer can be constructed with.
ObservabilityConfig ==
    [enabled : BOOLEAN, enable_binary_logging : BOOLEAN,
     enable_audio_capture : BOOLEAN, enable_text_capture : BOOLEAN,
     enable_timing_metrics : BOOLEAN,
     truncate_text_at : {DefaultTruncateTextAt}]

\* A variant that does not look at the master switch.
should_capture_frame_ignores_enabled(self, frame) ==
    IF frame \in _AUDIO_FRAMES /\ ~self.enable_audio_capture THEN FALSE
    ELSE IF frame \in _TEXT_FRAMES /\ ~self.enable_text_capture THEN FALSE
    ELSE TRUE

\* A variant that forgets the audio gate.
should_capture_frame_no_audio_gate(self, frame) ==
    IF ~self.enabled THEN FALSE
    ELSE IF frame \in _TEXT_FRAMES /\ ~self.enable_text_capture THEN FALSE
    ELSE TRUE

should_capture_frame(self, frame) ==
    IF ~self.enabled THEN FALSE
    ELSE IF frame \in _AUDIO_FRAMES /\ ~self.enable_audio_capture THEN FALSE
    ELSE IF frame \in _TEXT_FRAMES /\ ~self.enable_text_capture THEN FALSE
    ELSE TRUE

-----------------------------------------------------------------------------
\* protobuf_decoder.py

\* A serialized payload, described by what FrameProto.ParseFromString makes
\* of it: whether it parses, which of the fields are set, and their values.
WireFields == {"text", "transcription", "audio", "message"}

\* The wire format of pipecat's frames.proto: a Frame is one oneof with the
\* members text = 1 (TextFrame), audio = 2 (AudioRawFrame), transcription = 3
\* (TranscriptionFrame) and message = 4 (MessageFrame).
OneofMember(num) ==
    IF num = 1 THEN "text"
    ELSE IF num = 2 THEN "audio"
    ELSE IF num = 3 THEN "transcription"
    ELSE IF num = 4 THEN "message"
    ELSE ""

\* A field inside a member message: its number, its wire type (a varint
\* carrying n or a length-delimited value carrying s).
InnerField(num, wt, n, s) == [num |-> num, wt |-> wt, n |-> n, s |-> s]

\* A piece of a payload: a length-delimited field `num` of the Frame holding
\* the fields `sub`, a varint field `num`, or bytes that are no field at all
\* (a cut-off tag or length, an invalid wire type).
Chunk(k, num, sub) == [k |-> k, num |-> num, sub |-> sub]

RECURSIVE InnerSize(_)
InnerSize(sub) ==
    IF sub = <<>> THEN 0
    ELSE (IF Head(sub).wt = "varint" THEN 2 ELSE 2 + Len(Head(sub).s))
         + InnerSize(Tail(sub))

\* len(data) of a payload: a tag byte and a value or length byte per field,
\* and the bytes of the values.
RECURSIVE WireLen(_)
WireLen(payload) ==
    IF payload = <<>> THEN 0
    ELSE (IF Head(payload).k = "field" THEN 2 + InnerSize(Head(payload).sub)
          ELSE IF Head(payload).k = "varint" THEN 2
          ELSE 1)
         + WireLen(Tail(payload))

\* A member message with no field set: every string empty, every number 0.
EmptyMessage == [str |-> [i \in 1 .. 6 |-> ""], int |-> [i \in 1 .. 6 |-> 0]]

\* MergeFrom on a member message: the last value of a field wins; a field
\* whose wire type is not the declared one is kept as an unknown field and
\* read by nobody.
RECURSIVE MergeFields(_, _)
MergeFields(msg, sub) ==
    IF sub = <<>> THEN msg
    ELSE LET f == Head(sub)
             merged == IF f.wt = "varint"
                       THEN [msg EXCEPT !.int[f.num] = f.n]
                       ELSE [msg EXCEPT !.str[f.num] = f.s]
         IN  MergeFields(merged, Tail(sub))

\* The parser's walk over the fields of a Frame: `which` is the member of
\* the oneof that is set so far and `msg` its message.  A field of the same
\* member merges into it, a field of another member replaces it, a field
\* that is unknown or has the wrong wire type is skipped.
RECURSIVE ParseFields(_, _, _)
ParseFields(payload, which, msg) ==
    IF payload = <<>> THEN [which |-> which, msg |-> msg]
    ELSE LET c == Head(payload)
             member == IF c.k = "field" THEN OneofMember(c.num) ELSE ""
         IN  IF member = "" THEN ParseFields(Tail(payload), which, msg)
             ELSE IF member = which
             THEN ParseFields(Tail(payload), which, MergeFields(msg, c.sub))
             ELSE ParseFields(Tail(payload), member,
                              MergeFields(EmptyMessage, c.sub))

\* FrameProto().ParseFromString(data), lines 14-15, as the message the
\* decoder then reads: whether the bytes parse, which member HasField finds
\* set, and the values of the fields the decoder reads from it.
ParseFromString(payload) ==
    IF \E i \in 1 .. Len(payload) : payload[i].k = "junk"
    THEN [parses |-> FALSE, has |-> {}, text |-> "", user_id |-> "",
          audio_len |-> 0, sample_rate |-> 0, data |-> "",
          len |-> WireLen(payload)]
    ELSE LET p == ParseFields(payload, "", EmptyMessage)
         IN  [parses |-> TRUE,
              has |-> IF p.which = "" THEN {} ELSE {p.which},
              text |-> IF p.which \in {"text", "transcription"}
                       THEN p.msg.str[3] ELSE "",
              user_id |-> IF p.which = "transcription"
                          THEN p.msg.str[4] ELSE "",
              audio_len |-> IF p.which = "audio"
                            THEN Len(p.msg.str[3]) ELSE 0,
              sample_rate |-> IF p.which = "audio" THEN p.msg.int[4] ELSE 0,
              data |-> IF p.which = "message" THEN p.msg.str[1] ELSE "",
              len |-> WireLen(payload)]

\* The fields of a proto3 message as they are written: a field that holds
\* its default value (0, "") is left out.
RECURSIVE DropDefaults(_)
DropDefaults(sub) ==
    IF sub = <<>> THEN <<>>
    ELSE LET f == Head(sub)
             rest == DropDefaults(Tail(sub))
         IN  IF (f.wt = "varint" /\ f.n = 0) \/ (f.wt = "bytes" /\ f.s = "")
             THEN rest ELSE <<f>> \o rest

\* The payload that represents the text X: a Frame whose member text is a
\* TextFrame(id, name, text = X), serialized.
TextPayload(id, name, X) ==
    <<Chunk("field", 1,
            DropDefaults(<<InnerField(1, "varint", id, ""),
                           InnerField(2, "bytes", 0, name),
                           InnerField(3, "bytes", 0, X)>>))>>

\* json.loads on the data of a message field: a parsed document, a
\* JSONDecodeError, or (a deeply nested document) a RecursionError.
json_loads(raw) ==
    IF raw = "{\"a\":1}" THEN [ok |-> TRUE, value |-> [a |-> 1]]
    ELSE IF raw = "[[[[...]]]]" THEN [ok |-> FALSE, error |-> "RecursionError"]
    ELSE [ok |-> FALSE, error |-> "JSONDecodeError"]

Raises(e) == [raises |-> e]

IsRaise(r) == "raises" \in DOMAIN r

\* A variant that always gives a transcription record its user_id key.
decode_protobuf_always_user_id(data) ==
    IF ~data.parses THEN [type |-> "unknown", size_bytes |-> data.len]
    ELSE IF "text" \in data.has THEN [type |-> "text", text |-> data.text]
    ELSE IF "transcription" \in data.has THEN
        [type |-> "transcription", text |-> data.text,
         user_id |-> data.user_id]
    ELSE IF "audio" \in data.has THEN
        [type |-> "audio", size_bytes |-> data.audio_len,
         sample_rate |-> data.sample_rate]
    ELSE IF "message" \in data.has THEN
        LET parsed == json_loads(data.data)
        IN  IF parsed.ok THEN [type |-> "message", data |-> parsed.value]
            ELSE IF parsed.error = "JSONDecodeError"
            THEN [type |-> "message", data |-> data.data]
            ELSE Raises(parsed.error)
    ELSE [type |-> "empty", size_bytes |-> data.len]

\* A variant that adds the payload size to a text record, as the records
\* of type unknown and empty have it.
decode_protobuf_text_with_size(data) ==
    IF ~data.parses THEN [type |-> "unknown", size_bytes |-> data.len]
    ELSE IF "text" \in data.has
    THEN [type |-> "text", text |-> data.text, size_bytes |-> data.len]
    ELSE IF "transcription" \in data.has THEN
        IF data.user_id # ""
        THEN [type |-> "transcription", text |-> data.text,
              user_id |-> data.user_id]
        ELSE [type |-> "transcription", text |-> data.text]
    ELSE IF "audio" \in data.has THEN
        [type |-> "audio", size_bytes |-> data.audio_len,
         sample_rate |-> data.sample_rate]
    ELSE IF "message" \in data.has THEN
        LET parsed == json_loads(data.data)
        IN  IF parsed.ok THEN [type |-> "message", data |-> parsed.value]
            ELSE IF parsed.error = "JSONDecodeError"
            THEN [type |-> "message", data |-> data.data]
            ELSE Raises(parsed.error)
    ELSE [type |-> "empty", size_bytes |-> data.len]

\* A variant that looks at the audio field before the transcription field.
decode_protobuf_audio_first(data) ==
    IF ~data.parses THEN [type |-> "unknown", size_bytes |-> data.len]
    ELSE IF "text" \in data.has THEN [type |-> "text", text |-> data.text]
    ELSE IF "audio" \in data.has THEN
        [type |-> "audio", size_bytes |-> data.audio_len,
         sample_rate |-> data.sample_rate]
    ELSE IF "transcription" \in data.has THEN
        IF data.user_id # ""
        THEN [type |-> "transcription", text |-> data.text,
              user_id |-> data.user_id]
        ELSE [type |-> "transcription", text |-> data.text]
    ELSE IF "message" \in data.has THEN
        LET parsed == json_loads(data.data)
        IN  IF parsed.ok THEN [type |-> "message", data |-> parsed.value]
            ELSE IF parsed.error = "JSONDecodeError"
            THEN [type |-> "message", data |-> data.data]
            ELSE Raises(parsed.error)
    ELSE [type |-> "empty", size_bytes |-> data.len]

\* A variant that lets the parse error out.
decode_protobuf_parse_error_escapes(data) ==
    IF ~data.parses THEN Raises("DecodeError")
    ELSE IF "text" \in data.has THEN [type |-> "text", text |-> data.text]
    ELSE IF "transcription" \in data.has THEN
        IF data.user_id # ""
        THEN [type |-> "transcription", text |-> data.text,
              user_id |-> data.user_id]
        ELSE [type |-> "transcription", text |-> data.text]
    ELSE IF "audio" \in data.has THEN
        [type |-> "audio", size_bytes |-> data.audio_len,
         sample_rate |-> data.sample_rate]
    ELSE IF "message" \in data.has THEN
        LET parsed == json_loads(data.data)
        IN  IF parsed.ok THEN [type |-> "message", data |-> parsed.value]
            ELSE IF parsed.error = "JSONDecodeError"
            THEN [type |-> "message", data |-> data.data]
            ELSE Raises(parsed.error)
    ELSE [type |-> "empty", size_bytes |-> data.len]

decode_protobuf(data) ==
    IF ~data.parses THEN [type |-> "unknown", size_bytes |-> data.len]
    ELSE IF "text" \in data.has THEN [type |-> "text", text |-> data.text]
    ELSE IF "transcription" \in data.has THEN
        IF data.user_id # ""
        THEN [type |-> "transcription", text |-> data.text,
              user_id |-> data.user_id]
        ELSE [type |-> "transcription", text |-> data.text]
    ELSE IF "audio" \in data.has THEN
        [type |-> "audio", size_bytes |-> data.audio_len,
         sample_rate |-> data.sample_rate]
    ELSE IF "message" \in data.has THEN
        LET parsed == json_loads(data.data)
        IN  IF parsed.ok THEN [type |-> "message", data |-> parsed.value]
            ELSE IF parsed.error = "JSONDecodeError"
            THEN [type |-> "message", data |-> data.data]
            ELSE Raises(parsed.error)
    ELSE [type |-> "empty", size_bytes |-> data.len]

\* ProtobufMessageLog.__init__
ProtobufMessageLog ==
    [_counts |-> [downstream |-> 0, upstream |-> 0],
     _bytes |-> [downstream |-> 0, upstream |-> 0],
     _records |-> <<>>]

\* A variant that takes the size off the byte total.
record_subtracts_bytes(self, direction, size, decoded) ==
    [_counts |-> Put(self._counts, direction,
                     Get(self._counts, direction, 0) + 1),
     _bytes |-> Put(self._bytes, direction,
                    Get(self._bytes, direction, 0) - size),
     _records |-> Append(self._records,
                         decoded @@ [direction |-> direction, size |-> size])]

\* A variant that counts the message and its bytes and logs no record.
record_counts_only(self, direction, size, decoded) ==
    [_counts |-> Put(self._counts, direction,
                     Get(self._counts, direction, 0) + 1),
     _bytes |-> Put(self._bytes, direction,
                    Get(self._bytes, direction, 0) + size),
     _records |-> self._records]

\* A variant that puts the new record first.
record_prepends(self, direction, size, decoded) ==
    [_counts |-> Put(self._counts, direction,
                     Get(self._counts, direction, 0) + 1),
     _bytes |-> Put(self._bytes, direction,
                    Get(self._bytes, direction, 0) + size),
     _records |-> <<decoded @@ [direction |-> direction, size |-> size]>>
                     \o self._records]

\* A variant that counts the message and forgets its bytes.
record_forgets_bytes(self, direction, size, decoded) ==
    [_counts |-> Put(self._counts, direction,
                     Get(self._counts, direction, 0) + 1),
     _bytes |-> self._bytes,
     _records |-> Append(self._records,
                         decoded @@ [direction |-> direction, size |-> size])]

\* ProtobufMessageLog.record: {"direction": .., "size": .., **decoded}
record(self, direction, size, decoded) ==
    [_counts |-> Put(self._counts, direction,
                     Get(self._counts, direction, 0) + 1),
     _bytes |-> Put(self._bytes, direction,
                    Get(self._bytes, direction, 0) + size),
     _records |-> Append(self._records,
                         decoded @@ [direction |-> direction, size |-> size])]

\* ProtobufMessageLog.get_stats
get_stats(self) ==
    [downstream_count |-> Get(self._counts, "downstream", 0),
     upstream_count |-> Get(self._counts, "upstream", 0),
     downstream_bytes |-> Get(self._bytes, "downstream", 0),
     upstream_bytes |-> Get(self._bytes, "upstream", 0),
     total_messages |-> SumValues(self._counts)]

\* A variant that zeroes the two directions in place and keeps other keys.
clear_in_place(self) ==
    [_counts |-> [k \in DOMAIN self._counts |->
                    IF k \in {"downstream", "upstream"}
                    THEN 0 ELSE self._counts[k]],
     _bytes |-> [k \in DOMAIN self._bytes |->
                    IF k \in {"downstream", "upstream"}
                    THEN 0 ELSE self._bytes[k]],
     _records |-> <<>>]

\* A variant that forgets the byte totals.
clear_keeps_bytes(self) ==
    [_counts |-> [downstream |-> 0, upstream |-> 0],
     _bytes |-> self._bytes,
     _records |-> <<>>]

\* ProtobufMessageLog.clear
clear(self) ==
    [_counts |-> [downstream |-> 0, upstream |-> 0],
     _bytes |-> [downstream |-> 0, upstream |-> 0],
     _records |-> <<>>]

-----------------------------------------------------------------------------
\* pipeline_observer.py

\* The frames pushed in the model, each with its data.direction: an audio
\* frame going downstream, a text frame going upstream, and a frame that is
\* neither audio nor text with a direction that is neither member of
\* FrameDirection.
PushedFrames ==
    {[frame |-> "OutputAudioRawFrame", direction |-> "DOWNSTREAM"],
     [frame |-> "TextFrame", direction |-> "UPSTREAM"],
     [frame |-> "EndFrame", direction |-> "OTHER"]}

\* What is wrong with the pushed data, if anything: a source or destination
\* whose name is not a string (lines 195-200), a text attribute that is not a
\* string (lines 108-113), a message that the logger rejects or a sink that
\* fails (line 228).
Faults == {"none", "name", "text", "sink"}

FramePushed ==
    {[frame |-> p.frame, direction |-> p.direction, fault |-> f] :
        p \in PushedFrames, f \in Faults}

\* A variant that reports a latency of zero when there is no previous frame.
LatencyMs_zero_first(current_time, last_frame_time) ==
    IF last_frame_time # None
    THEN Some((current_time - Value(last_frame_time)) * 1000)
    ELSE Some(0)

\* Lines 170-171: the latency against the previous accepted frame.
LatencyMs(current_time, last_frame_time) ==
    IF last_frame_time # None
    THEN Some((current_time - Value(last_frame_time)) * 1000)
    ELSE None

\* A variant that advances the previous timestamp only while timing
\* metrics are enabled.
AdvanceLastFrameTime_when_timing(current_time) ==
    IF config.enable_timing_metrics THEN Some(current_time)
    ELSE _last_frame_time

\* Line 172: self._last_frame_time = current_time, outside the test of
\* enable_timing_metrics.
AdvanceLastFrameTime(current_time) == Some(current_time)

\* Lines 174-175: self._latencies.setdefault(frame_type, []).append(latency_ms)
AppendLatency(latencies, frame_type, latency_ms) ==
    Put(latencies, frame_type,
        Append(Get(latencies, frame_type, <<>>), latency_ms))

\* A variant that stores 1 instead of incrementing.
CountFrame_set_one(frame_counts, frame_type) ==
    Put(frame_counts, frame_type, 1)

\* Line 178: self._frame_counts[frame_type] = self._frame_counts.get(..) + 1
CountFrame(frame_counts, frame_type) ==
    Put(frame_counts, frame_type, Get(frame_counts, frame_type, 0) + 1)

\* A variant with two labels: what does not go downstream is 'upstream'.
direction_label_two_way(direction) ==
    IF direction = "DOWNSTREAM" THEN "downstream" ELSE "upstream"

\* Lines 181-192
direction_label(direction) ==
    IF direction = "DOWNSTREAM" THEN "downstream"
    ELSE IF direction = "UPSTREAM" THEN "upstream"
    ELSE "control"

\* time.time(): a reading of the wall clock.  It is normally not below the
\* reading before it; it is below it when the system clock was set back
\* between the two calls.  With binary logging enabled the model's clock
\* stands still, which keeps the interleavings of the background tasks
\* within reach; the readings vary with binary logging disabled.
TimeReadings == IF config.enable_binary_logging THEN {0} ELSE 0 .. MaxClock

\* History: whether the capture policy, as the specification words it,
\* rejects a frame: the policy is disabled, or the frame is audio-class and
\* audio capture is off, or it is text-class and text capture is off.
PolicyRejects(policy, frame) ==
    \/ ~policy.enabled
    \/ frame \in _AUDIO_FRAMES /\ ~policy.enable_audio_capture
    \/ frame \in _TEXT_FRAMES /\ ~policy.enable_text_capture

\* asyncio.create_task: a new task, not yet started.  The frame it holds is
\* only handed to the serializer, whose answer the model leaves open.
NewTask(label) ==
    [direction_label |-> label, pc |-> "scheduled", must_cancel |-> FALSE,
     old |-> FALSE]

\* A variant that awaits the body instead of scheduling it.
ScheduleTask_inline(id, label) ==
    /\ UNCHANGED <<tasks, _pending_tasks>>
    /\ _protobuf_log' = record(_protobuf_log, label, 6,
                               [type |-> "text", text |-> "hi"])
    /\ logEv' = Append(logEv, [ev |-> id, old |-> FALSE])

\* A variant that creates the task without keeping its handle.
ScheduleTask_untracked(id, label) ==
    /\ tasks' = (id :> NewTask(label)) @@ tasks
    /\ UNCHANGED <<_pending_tasks, _protobuf_log, logEv>>

\* Lines 231-236: the task is created and added to the in-flight set; its
\* body does not run here.
ScheduleTask(id, label) ==
    /\ tasks' = (id :> NewTask(label)) @@ tasks
    /\ _pending_tasks' = _pending_tasks \cup {id}
    /\ UNCHANGED <<_protobuf_log, logEv>>

\* The history of a step: the operation, the event and frame type it is
\* about (of a call of on_push_frame), how it ended and how many trace lines
\* it handed to logger.debug.
Outcome(op, ev, frame, outcome, lines) ==
    [op |-> op, ev |-> ev, frame |-> frame, outcome |-> outcome,
     lines |-> lines]

\* PipelineObserver.on_push_frame, one call, reading `now` from the clock.
\* A fault in the data raises after the statistics are updated and before
\* the trace line is logged; nothing in the method catches it.
on_push_frame(data, now) ==
    LET id == nCalls + 1
        frame_type == data.frame
    IN
    /\ nCalls' = id
    /\ accepted' = IF PolicyRejects(config, data.frame)
                   THEN accepted ELSE accepted + 1
    /\ UNCHANGED <<config, _session_start, everReset, call>>
    /\ IF ~config.enabled \/ ~should_capture_frame(config, data.frame)
       THEN /\ last' = Outcome("on_push_frame", id, frame_type, "rejected", 0)
            /\ UNCHANGED <<clock, _last_frame_time, _frame_counts, _latencies,
                           _pending_tasks, tasks, _protobuf_log, logEv>>
       ELSE LET current_time == now
                latency_ms == LatencyMs(current_time, _last_frame_time)
            IN
            /\ clock' = now
            /\ _last_frame_time' = AdvanceLastFrameTime(current_time)
            /\ _latencies' =
                 IF latency_ms # None /\ config.enable_timing_metrics
                 THEN AppendLatency(_latencies, frame_type, Value(latency_ms))
                 ELSE _latencies
            /\ _frame_counts' = CountFrame(_frame_counts, frame_type)
            /\ IF data.fault # "none"
               THEN /\ last' = Outcome("on_push_frame", id, frame_type, "raised", 0)
                    /\ UNCHANGED <<_pending_tasks, tasks, _protobuf_log, logEv>>
               ELSE /\ last' = Outcome("on_push_frame", id, frame_type, "returned", 1)
                    /\ IF config.enable_binary_logging
                       THEN ScheduleTask(id, direction_label(data.direction))
                       ELSE UNCHANGED <<_pending_tasks, tasks, _protobuf_log,
                                        logEv>>

-----------------------------------------------------------------------------
\* The background task, lines 137-150.

Payload(parses, has, text, user_id, audio_len, sample_rate, data, len) ==
    [parses |-> parses, has |-> has, text |-> text, user_id |-> user_id,
     audio_len |-> audio_len, sample_rate |-> sample_rate, data |-> data,
     len |-> len]

\* What the serializer may hand back as bytes in the model: a text message
\* and a message whose document json.loads gives up on.
SerializedPayloads ==
    {Payload(TRUE, {"text"}, "hi", "", 0, 0, "", 6),
     Payload(TRUE, {"message"}, "", "", 0, 0, "[[[[...]]]]", 9)}

\* How `await self._serializer.serialize(frame)` ends: it raises, returns
\* None, returns empty bytes, or returns a payload.
SerializeResults ==
    {[kind |-> "raise"], [kind |-> "None"], [kind |-> "empty"]}
    \cup {[kind |-> "bytes", data |-> p] : p \in SerializedPayloads}

\* A variant that tests `serialized is not None`: empty bytes are decoded
\* and recorded.
AfterSerialize_records_empty(log, label, result) ==
    IF result.kind \in {"raise", "None"} THEN log
    ELSE LET data == IF result.kind = "empty"
                     THEN Payload(TRUE, {}, "", "", 0, 0, "", 0)
                     ELSE result.data
             decoded == decode_protobuf(data)
         IN  IF IsRaise(decoded) THEN log
             ELSE record(log, label, data.len, decoded)

\* Lines 143-150 for a serializer call that has ended with `result`: the
\* accumulator after them.  `if serialized:` skips None and empty bytes; an
\* exception of the serializer or of decode_protobuf is caught by
\* `except Exception: pass`.
AfterSerialize(log, label, result) ==
    IF result.kind # "bytes" THEN log
    ELSE LET decoded == decode_protobuf(result.data)
         IN  IF IsRaise(decoded) THEN log
             ELSE record(log, label, result.data.len, decoded)

\* History: what the task's body met: a serializer that raised, one that
\* returned no result, a decode that raised, or bytes that were decoded.
BodyOutcome(result) ==
    IF result.kind = "raise" THEN "serializer_raised"
    ELSE IF result.kind # "bytes" THEN "no_result"
    ELSE IF IsRaise(decode_protobuf(result.data)) THEN "decode_raised"
    ELSE "decoded"

\* The rest of the body runs in one step and the task is done; its done
\* callback is scheduled with call_soon.
FinishTask(id, result) ==
    LET t == tasks[id]
        log == AfterSerialize(_protobuf_log, t.direction_label, result)
    IN
    /\ _protobuf_log' = log
    /\ logEv' = IF Len(log._records) > Len(_protobuf_log._records)
                THEN Append(logEv, [ev |-> id, old |-> t.old])
                ELSE logEv
    /\ tasks' = [tasks EXCEPT ![id].pc = "done"]
    /\ last' = Outcome("task", 0, "", BodyOutcome(result), 0)

\* A variant in which the cancellation is swallowed and the body goes on
\* with the bytes of a text message.
ThrowCancelled_absorbed(id) ==
    FinishTask(id, [kind |-> "bytes",
                    data |-> Payload(TRUE, {"text"}, "hi", "", 0, 0, "", 6)])

\* A cancelled task gets CancelledError thrown into it at its next step.
\* CancelledError is a BaseException: `except Exception` does not catch it,
\* and the task ends cancelled without reaching record.
ThrowCancelled(id) ==
    /\ tasks' = [tasks EXCEPT ![id].pc = "done"]
    /\ last' = Outcome("task", 0, "", "cancelled", 0)
    /\ UNCHANGED <<_protobuf_log, logEv>>

\* The loop runs a scheduled task for the first time.  The serializer either
\* suspends (the task waits in the await) or ends at once.
TaskStart(id, suspends, result) ==
    /\ id \in DOMAIN tasks
    /\ tasks[id].pc = "scheduled"
    /\ UNCHANGED <<config, clock, _last_frame_time, _frame_counts, _latencies,
                   _pending_tasks, _session_start, nCalls, everReset, accepted,
                   call>>
    /\ IF tasks[id].must_cancel THEN ThrowCancelled(id)
       ELSE IF suspends
       THEN /\ tasks' = [tasks EXCEPT ![id].pc = "awaiting"]
            /\ last' = Outcome("task", 0, "", "suspended", 0)
            /\ UNCHANGED <<_protobuf_log, logEv>>
       ELSE FinishTask(id, result)

\* The serializer call of a suspended task ends and the task resumes.
TaskResume(id, result) ==
    /\ id \in DOMAIN tasks
    /\ tasks[id].pc = "awaiting"
    /\ UNCHANGED <<config, clock, _last_frame_time, _frame_counts, _latencies,
                   _pending_tasks, _session_start, nCalls, everReset, accepted,
                   call>>
    /\ IF tasks[id].must_cancel THEN ThrowCancelled(id)
       ELSE FinishTask(id, result)

\* A variant whose callback empties the in-flight set.
DoneCallback_clears_set(id) ==
    /\ id \in DOMAIN tasks
    /\ tasks[id].pc = "done"
    /\ _pending_tasks' = {}
    /\ tasks' = [t \in DOMAIN tasks \ {id} |-> tasks[t]]
    /\ last' = Outcome("callback", 0, "", "discarded", 0)
    /\ UNCHANGED <<config, clock, _last_frame_time, _frame_counts, _latencies,
                   _session_start, _protobuf_log, nCalls, everReset, accepted,
                   logEv, call>>

\* Line 236: task.add_done_callback(self._pending_tasks.discard), run by the
\* loop after the task is done.
DoneCallback(id) ==
    /\ id \in DOMAIN tasks
    /\ tasks[id].pc = "done"
    /\ _pending_tasks' = _pending_tasks \ {id}
    /\ tasks' = [t \in DOMAIN tasks \ {id} |-> tasks[t]]
    /\ last' = Outcome("callback", 0, "", "discarded", 0)
    /\ UNCHANGED <<config, clock, _last_frame_time, _frame_counts, _latencies,
                   _session_start, _protobuf_log, nCalls, everReset, accepted,
                   logEv, call>>

-----------------------------------------------------------------------------
\* PipelineObserver.reset, lines 283-291.

\* A variant that clears the set without cancelling.
CancelAll_none(ts, pending) == ts

\* task.cancel() on every task of the in-flight set; on a task that is done
\* it does nothing.
CancelAll(ts, pending) ==
    [t \in DOMAIN ts |->
        IF t \in pending /\ ts[t].pc # "done"
        THEN [ts[t] EXCEPT !.must_cancel = TRUE]
        ELSE ts[t]]

\* History: every task that exists at a reset belongs to an old session.
MarkOld(ts) == [t \in DOMAIN ts |-> [ts[t] EXCEPT !.old = TRUE]]

\* A variant that leaves the latency samples of the old session in place.
reset_keeps_latencies(now) ==
    /\ everReset' = TRUE
    /\ clock' = now
    /\ _last_frame_time' = None
    /\ _frame_counts' = EmptyDict
    /\ _latencies' = _latencies
    /\ _protobuf_log' = clear(_protobuf_log)
    /\ _session_start' = now
    /\ tasks' = MarkOld(CancelAll(tasks, _pending_tasks))
    /\ _pending_tasks' = {}
    /\ accepted' = 0
    /\ logEv' = <<>>
    /\ last' = Outcome("reset", 0, "", "returned", 0)
    /\ UNCHANGED <<config, nCalls, call>>

reset(now) ==
    /\ everReset' = TRUE
    /\ clock' = now
    /\ _last_frame_time' = None
    /\ _frame_counts' = EmptyDict
    /\ _latencies' = EmptyDict
    /\ _protobuf_log' = clear(_protobuf_log)
    /\ _session_start' = now
    /\ tasks' = MarkOld(CancelAll(tasks, _pending_tasks))
    /\ _pending_tasks' = {}
    /\ accepted' = 0
    /\ logEv' = <<>>
    /\ last' = Outcome("reset", 0, "", "returned", 0)
    /\ UNCHANGED <<config, nCalls, call>>

-----------------------------------------------------------------------------
\* PipelineObserver.__init__, lines 68-78.

\* No function of the modules has been called on its own.
NoCall == [fn |-> "none"]

\* Lines 70-77 without the session clock: the fields on_push_frame, the
\* background tasks and the queries read and write, and a loop on which the
\* observer has no task.
ConstructedFields(cfg) ==
    /\ config = cfg
    /\ _last_frame_time = None
    /\ _frame_counts = EmptyDict
    /\ _latencies = EmptyDict
    /\ _pending_tasks = {}
    /\ _protobuf_log = ProtobufMessageLog
    /\ tasks = EmptyDict

\* The observer right after PipelineObserver(cfg).
PipelineObserver(cfg) ==
    /\ ConstructedFields(cfg)
    /\ clock = 0
    /\ _session_start = clock
    /\ nCalls = 0
    /\ everReset = FALSE
    /\ accepted = 0
    /\ logEv = <<>>
    /\ last = Outcome("__init__", 0, "", "returned", 0)

Init ==
    /\ \E cfg \in ObservabilityConfig : PipelineObserver(cfg)
    /\ call = NoCall

Next ==
    \/ /\ nCalls < MaxEvents
       /\ \E data \in FramePushed, now \in TimeReadings :
             on_push_frame(data, now)
    \/ \E id \in DOMAIN tasks, suspends \in BOOLEAN, result \in SerializeResults :
          TaskStart(id, suspends, result)
    \/ \E id \in DOMAIN tasks, result \in SerializeResults : TaskResume(id, result)
    \/ \E id \in DOMAIN tasks : DoneCallback(id)
    \/ \E now \in TimeReadings : reset(now)

Spec == Init /\ [][Next]_vars

-----------------------------------------------------------------------------
\* decode_protobuf called on its own, on bounded payloads.

\* The policy an observer is constructed with by default, lines 36-41.
DefaultConfig ==
    [enabled |-> TRUE, enable_binary_logging |-> TRUE,
     enable_audio_capture |-> FALSE, enable_text_capture |-> TRUE,
     enable_timing_metrics |-> TRUE, truncate_text_at |-> DefaultTruncateTextAt]

\* The member messages of the payloads: nothing set; a text; what the
\* serializer writes for a text frame; a JSON document, a document json.loads
\* gives up on and a plain word in field 1; text and user id; bytes and a
\* sample rate.
SampleMessages ==
    {<<>>,
     <<InnerField(3, "bytes", 0, "hi")>>,
     <<InnerField(1, "varint", 7, ""), InnerField(2, "bytes", 0, "n"),
       InnerField(3, "bytes", 0, "hi")>>,
     <<InnerField(1, "bytes", 0, "{\"a\":1}")>>,
     <<InnerField(1, "bytes", 0, "[[[[...]]]]")>>,
     <<InnerField(1, "bytes", 0, "x")>>,
     <<InnerField(3, "bytes", 0, "hi"), InnerField(4, "bytes", 0, "u1")>>,
     <<InnerField(3, "bytes", 0, "hi"), InnerField(4, "varint", 16000, "")>>}

\* The pieces payloads are made of: each member message in each of the
\* fields 1 to 5 (5 is no field of Frame), a varint in field 1, and a byte
\* that starts no field.
SampleChunks ==
    {Chunk("field", num, sub) : num \in 1 .. 5, sub \in SampleMessages}
    \cup {Chunk("varint", 1, <<>>), Chunk("junk", 0, <<>>)}

\* Every payload of at most MaxChunks pieces, the 0-byte payload among them:
\* well-formed messages, noise that happens to parse, and noise that does not.
NoisePayloads ==
    UNION {[1 .. k -> SampleChunks] : k \in 0 .. MaxChunks}

\* The strings X of the payloads built to represent a text.
SampleTexts == {"", "hi", "<b>"}

TextPayloads ==
    {TextPayload(id, name, X) :
        id \in {0, 7}, name \in {"", "TextFrame#0"}, X \in SampleTexts}

\* A FrameProto after a successful parse, described by its HasField answers
\* alone: any combination of the four fields.
ParsedMessages ==
    {Payload(TRUE, has, "hi", user_id, 2, 16000, data, 9) :
        has \in SUBSET WireFields, user_id \in {"", "u1"},
        data \in {"{\"a\":1}", "x"}}

\* A call of decode_protobuf that has not been run yet: on a payload, or
\* (lines 19-45 alone) on a message that is already parsed.
DecodeCalls ==
    {[fn |-> "decode_protobuf", pc |-> "called", wire |-> TRUE,
      payload |-> payload, proto |-> ParseFromString(payload)] :
        payload \in NoisePayloads \cup TextPayloads}
    \cup {[fn |-> "decode_protobuf", pc |-> "called", wire |-> FALSE,
           payload |-> <<>>, proto |-> proto] : proto \in ParsedMessages}

\* The call runs: it returns a record or ends by an exception.
DecodeReturn ==
    /\ call.fn = "decode_protobuf"
    /\ call.pc = "called"
    /\ LET result == decode_protobuf(call.proto)
       IN  call' = [fn |-> call.fn, wire |-> call.wire,
                    payload |-> call.payload, proto |-> call.proto,
                    pc |-> IF IsRaise(result) THEN "raised" ELSE "returned",
                    result |-> result]
    /\ UNCHANGED <<config, clock, _last_frame_time, _frame_counts, _latencies,
                   _pending_tasks, _session_start, _protobuf_log, tasks,
                   nCalls, everReset, accepted, logEv, last>>

DecoderInit ==
    /\ PipelineObserver(DefaultConfig)
    /\ call \in DecodeCalls

DecoderNext == DecodeReturn

DecoderSpec == DecoderInit /\ [][DecoderNext]_vars

-----------------------------------------------------------------------------
\* ProtobufMessageLog used on its own: record, get_stats and clear called
\* in any order.

\* The payloads whose decoded record is recorded: a text, an audio message
\* with a sample rate, a message with a plain word, and a byte that does not
\* parse.
RecordedPayloads ==
    {TextPayload(7, "n", "hi"),
     <<Chunk("field", 2, <<InnerField(3, "bytes", 0, "hi"),
                           InnerField(4, "varint", 16000, "")>>)>>,
     <<Chunk("field", 4, <<InnerField(1, "bytes", 0, "x")>>)>>,
     <<Chunk("junk", 0, <<>>)>>}

\* The directions record is called with: the two of its docstring and the
\* label the observer gives a frame that goes neither way.
Directions == {"downstream", "upstream", "control"}

\* log.record(direction, len(payload), decode_protobuf(payload))
RecordCall(direction, payload) ==
    LET size == WireLen(payload)
        decoded == decode_protobuf(ParseFromString(payload))
    IN
    /\ Len(_protobuf_log._records) < MaxRecords
    /\ _protobuf_log' = record(_protobuf_log, direction, size, decoded)
    /\ call' = [fn |-> "record", direction |-> direction, size |-> size,
                decoded |-> decoded, cleared |-> FALSE, before |-> EmptyDict]
    /\ UNCHANGED <<config, clock, _last_frame_time, _frame_counts, _latencies,
                   _pending_tasks, _session_start, tasks, nCalls, everReset,
                   accepted, logEv, last>>

\* log.get_stats()
GetStatsCall ==
    /\ call.fn # "get_stats"
    /\ call' = [fn |-> "get_stats", result |-> get_stats(_protobuf_log),
                cleared |-> call.cleared, before |-> call.before]
    /\ UNCHANGED <<config, clock, _last_frame_time, _frame_counts, _latencies,
                   _pending_tasks, _session_start, _protobuf_log, tasks,
                   nCalls, everReset, accepted, logEv, last>>

\* log.clear(); `before` keeps the counts it wiped.
ClearCall ==
    /\ _protobuf_log' = clear(_protobuf_log)
    /\ call' = [fn |-> "clear", cleared |-> TRUE,
                before |-> _protobuf_log._counts]
    /\ UNCHANGED <<config, clock, _last_frame_time, _frame_counts, _latencies,
                   _pending_tasks, _session_start, tasks, nCalls, everReset,
                   accepted, logEv, last>>

LogInit ==
    /\ PipelineObserver(DefaultConfig)
    /\ call = [fn |-> "__init__", cleared |-> FALSE, before |-> EmptyDict]

LogNext ==
    \/ \E direction \in Directions, payload \in RecordedPayloads :
          RecordCall(direction, payload)
    \/ GetStatsCall
    \/ ClearCall

LogSpec == LogInit /\ [][LogNext]_vars

-----------------------------------------------------------------------------
\* ObservabilityConfig.should_capture_frame called on its own.

\* The frame classes observability_config.py imports, lines 5-23.
FrameTypes ==
    {"InputAudioRawFrame", "OutputAudioRawFrame", "TextFrame",
     "TranscriptionFrame", "InterimTranscriptionFrame", "LLMTextFrame",
     "UserStartedSpeakingFrame", "UserStoppedSpeakingFrame",
     "BotStartedSpeakingFrame", "BotStoppedSpeakingFrame", "TTSStartedFrame",
     "TTSStoppedFrame", "LLMFullResponseStartFrame", "LLMFullResponseEndFrame",
     "StartFrame", "EndFrame", "CancelFrame"}

\* config.should_capture_frame(frame): the method reads self and frame and
\* assigns nothing.
ShouldCaptureReturn ==
    /\ call.fn = "should_capture_frame"
    /\ call.pc = "called"
    /\ call' = [fn |-> call.fn, frame |-> call.frame, pc |-> "returned",
                result |-> should_capture_frame(config, call.frame)]
    /\ UNCHANGED <<config, clock, _last_frame_time, _frame_counts, _latencies,
                   _pending_tasks, _session_start, _protobuf_log, tasks,
                   nCalls, everReset, accepted, logEv, last>>

PolicyInit ==
    /\ \E cfg \in ObservabilityConfig : PipelineObserver(cfg)
    /\ call \in {[fn |-> "should_capture_frame", frame |-> frame,
                   pc |-> "called"] : frame \in FrameTypes}

PolicyNext == ShouldCaptureReturn

PolicySpec == PolicyInit /\ [][PolicyNext]_vars

-----------------------------------------------------------------------------
\* PipelineObserver.get_latency_stats, lines 245-255.

\* A positive float: m * 2^e with a significand m of exactly FloatBits bits.
RECURSIVE Pow2(_)
Pow2(k) == IF k = 0 THEN 1 ELSE 2 * Pow2(k - 1)

Float(m, e) == [m |-> m, e |-> e]

\* a <= b on floats.
FloatLeq(a, b) ==
    LET E == IF a.e < b.e THEN a.e ELSE b.e
    IN  a.m * Pow2(a.e - E) <= b.m * Pow2(b.e - E)

\* The float nearest to (N / D) * 2^E, ties to the even significand.
RECURSIVE RoundToFloat(_, _, _)
RoundToFloat(N, D, E) ==
    IF N >= D * Pow2(FloatBits) THEN RoundToFloat(N, 2 * D, E + 1)
    ELSE IF N < D * Pow2(FloatBits - 1) THEN RoundToFloat(2 * N, D, E - 1)
    ELSE LET q == N \div D
             r == N % D
             up == 2 * r > D \/ (2 * r = D /\ q % 2 = 1)
             m == IF up THEN q + 1 ELSE q
         IN  IF m = Pow2(FloatBits) THEN Float(Pow2(FloatBits - 1), E + 1)
             ELSE Float(m, E)

\* a + b on floats: the exact sum, rounded.
FloatAdd(a, b) ==
    LET E == IF a.e < b.e THEN a.e ELSE b.e
    IN  RoundToFloat(a.m * Pow2(a.e - E) + b.m * Pow2(b.e - E), 1, E)

\* sum(lats): the samples added from left to right, each sum rounded.
RECURSIVE FloatSum(_)
FloatSum(lats) ==
    IF Len(lats) = 1 THEN lats[1]
    ELSE FloatAdd(FloatSum(SubSeq(lats, 1, Len(lats) - 1)), lats[Len(lats)])

\* x / n for a float x and a positive int n: the exact quotient, rounded.
FloatDiv(x, n) == RoundToFloat(x.m, n, x.e)

\* min(lats) and max(lats)
FloatMin(lats) ==
    lats[CHOOSE i \in 1 .. Len(lats) :
            \A j \in 1 .. Len(lats) : FloatLeq(lats[i], lats[j])]

FloatMax(lats) ==
    lats[CHOOSE i \in 1 .. Len(lats) :
            \A j \in 1 .. Len(lats) : FloatLeq(lats[j], lats[i])]

get_latency_stats(latencies) ==
    [ft \in {c \in DOMAIN latencies : latencies[c] # <<>>} |->
        [count |-> Len(latencies[ft]),
         min_ms |-> FloatMin(latencies[ft]),
         max_ms |-> FloatMax(latencies[ft]),
         avg_ms |-> FloatDiv(FloatSum(latencies[ft]), Len(latencies[ft]))]]

\* The latency samples in the model: the floats of one binade.
SampleLatencies ==
    {Float(m, 0) : m \in Pow2(FloatBits - 1) .. Pow2(FloatBits) - 1}

\* self._latencies after a session: one category with up to MaxSamples
\* samples, and possibly a second category with one sample.  (A key of
\* _latencies never has an empty list: line 175 appends to what setdefault
\* gives.)
SessionLatencies ==
    LET Lists == UNION {[1 .. k -> SampleLatencies] : k \in 1 .. MaxSamples}
    IN  {[ft \in {"TextFrame"} |-> lats] : lats \in Lists}
        \cup {[ft \in {"TextFrame", "EndFrame"} |->
                  IF ft = "TextFrame" THEN lats ELSE <<x>>] :
                lats \in Lists, x \in {Float(Pow2(FloatBits - 1), 0)}}

\* observer.get_latency_stats() returns.
GetLatencyStatsReturn ==
    /\ call.fn = "get_latency_stats"
    /\ call.pc = "called"
    /\ call' = [fn |-> call.fn, pc |-> "returned",
                result |-> get_latency_stats(_latencies)]
    /\ UNCHANGED <<config, clock, _last_frame_time, _frame_counts, _latencies,
                   _pending_tasks, _session_start, _protobuf_log, tasks,
                   nCalls, everReset, accepted, logEv, last>>

\* An observer with timing metrics and without binary logging, after a
\* session whose first accepted event was a StartFrame and whose later
\* events left the samples of `_latencies`.
StatsInit ==
    /\ config = [DefaultConfig EXCEPT !.enable_binary_logging = FALSE]
    /\ clock = 0
    /\ _session_start = 0
    /\ _last_frame_time = Some(0)
    /\ _latencies \in SessionLatencies
    /\ _frame_counts =
          [ft \in DOMAIN _latencies \cup {"StartFrame"} |->
              IF ft = "StartFrame" THEN 1 ELSE Len(_latencies[ft])]
    /\ _pending_tasks = {}
    /\ _protobuf_log = ProtobufMessageLog
    /\ tasks = EmptyDict
    /\ nCalls = SumValues(_frame_counts)
    /\ accepted = nCalls
    /\ everReset = FALSE
    /\ logEv = <<>>
    /\ last = Outcome("on_push_frame", nCalls, "TextFrame", "returned", 1)
    /\ call = [fn |-> "get_latency_stats", pc |-> "called"]

StatsNext == GetLatencyStatsReturn

StatsSpec == StatsInit /\ [][StatsNext]_vars

-----------------------------------------------------------------------------
\* Properties.

\* C1: on_push_frame never raises to its caller: whatever the event and
\* whatever fails inside, the call returns normally.
C1_NeverRaises ==
    ~(last.op = "on_push_frame" /\ last.outcome = "raised")

\* C2: a call of on_push_frame for an event the capture policy rejects
\* changes nothing of the observer: no count, no latency sample, no new
\* previous timestamp, no task scheduled, no decode record, and the event
\* has no task.
C2_RejectedIsInvisible ==
    [][\A data \in FramePushed, now \in TimeReadings :
          (on_push_frame(data, now) /\ PolicyRejects(config, data.frame))
              => /\ UNCHANGED observerVars
                 /\ UNCHANGED logEv
                 /\ (nCalls + 1) \notin DOMAIN tasks']_vars

\* A rejected event arrives at an enabled observer that has already counted
\* an event.
C2_Witness ==
    /\ last.op = "on_push_frame"
    /\ last.outcome = "rejected"
    /\ config.enabled
    /\ accepted >= 1

\* C3: the frame counts sum to the number of events the capture policy
\* accepted since construction or the last reset.
C3_CountsSumToAccepted ==
    SumValues(_frame_counts) = accepted

\* One event was accepted and one rejected.
C3_Witness ==
    /\ ~everReset
    /\ nCalls = 2
    /\ accepted = 1
    /\ SumValues(_frame_counts) = 1

\* C4: the first accepted event of a session, after construction and after
\* every reset, appends no latency sample to any category.
C4_FirstEventNoLatency ==
    [][(accepted = 0 /\ accepted' = 1) => _latencies' = EmptyDict]_vars

\* With timing metrics on, an event is accepted after a reset that followed
\* an accepted event.
C4_Witness ==
    /\ everReset
    /\ nCalls = 2
    /\ accepted = 1
    /\ config.enable_timing_metrics
    /\ last.op = "on_push_frame"
    /\ _last_frame_time # None
    /\ _latencies = EmptyDict

\* The number of latency samples stored, over all categories.
TotalSamples(latencies) ==
    SumOver([c \in DOMAIN latencies |-> Len(latencies[c])], DOMAIN latencies)

\* C5: with timing metrics enabled, every accepted event after the first of
\* a session appends exactly one latency sample, the time since the
\* preceding accepted event, to the sequence of its own category and to no
\* other, and the sample is not negative.
C5_OneNonNegativeSamplePerEvent ==
    [][\A data \in FramePushed, now \in TimeReadings :
          (/\ on_push_frame(data, now)
           /\ ~PolicyRejects(config, data.frame)
           /\ config.enable_timing_metrics
           /\ accepted >= 1)
              => LET sample == (now - Value(_last_frame_time)) * 1000
                     before == Get(_latencies, data.frame, <<>>)
                 IN  /\ data.frame \in DOMAIN _latencies'
                     /\ _latencies'[data.frame] = Append(before, sample)
                     /\ \A c \in DOMAIN _latencies' \ {data.frame} :
                           c \in DOMAIN _latencies
                           /\ _latencies'[c] = _latencies[c]
                     /\ sample >= 0]_vars

\* C6: a call of on_push_frame that returns has, in that one step, counted
\* the event, advanced the previous timestamp, stored the latency sample if
\* one is due and logged exactly one trace line; the task is only scheduled:
\* its body has not run, the decode log is unchanged and no other task moved.
C6_OnEventIsOneStep ==
    [][\A data \in FramePushed, now \in TimeReadings :
          (/\ on_push_frame(data, now)
           /\ ~PolicyRejects(config, data.frame)
           /\ data.fault = "none")
              => /\ SumValues(_frame_counts') = SumValues(_frame_counts) + 1
                 /\ _last_frame_time' = Some(now)
                 /\ TotalSamples(_latencies') = TotalSamples(_latencies) +
                       (IF accepted >= 1 /\ config.enable_timing_metrics
                        THEN 1 ELSE 0)
                 /\ last'.lines = 1
                 /\ _protobuf_log' = _protobuf_log
                 /\ logEv' = logEv
                 /\ \A id \in DOMAIN tasks :
                       id \in DOMAIN tasks' /\ tasks'[id] = tasks[id]
                 /\ config.enable_binary_logging =>
                       /\ (nCalls + 1) \in DOMAIN tasks'
                       /\ tasks'[nCalls + 1].pc = "scheduled"
                       /\ (nCalls + 1) \in _pending_tasks']_vars

\* A second event has returned while the task of the first has not run yet.
C6_Witness ==
    /\ last.op = "on_push_frame"
    /\ last.outcome = "returned"
    /\ nCalls = 2
    /\ DOMAIN tasks = {1, 2}
    /\ tasks[1].pc = "scheduled"
    /\ tasks[2].pc = "scheduled"
    /\ _protobuf_log._records = <<>>

\* C7: a background task whose serializer call raises or returns nothing or
\* empty bytes, or whose decode raises, appends no record and leaves the
\* accumulator as it was; nothing is raised to a caller of on_push_frame.
C7_FailedTaskEndsSilently ==
    [][(/\ last'.op = "task"
        /\ last'.outcome \in {"serializer_raised", "no_result", "decode_raised"})
          => /\ _protobuf_log' = _protobuf_log
             /\ logEv' = logEv
             /\ UNCHANGED <<_frame_counts, _latencies, _last_frame_time,
                            _pending_tasks, nCalls>>]_vars

\* A task's decode raised after another task had recorded.
C7_Witness ==
    /\ last.op = "task"
    /\ last.outcome = "decode_raised"
    /\ Len(_protobuf_log._records) = 1

\* A step of a task of an old session that appends a record.
OldTaskAppends ==
    \E id \in DOMAIN tasks, result \in SerializeResults :
        /\ tasks[id].old
        /\ TaskStart(id, FALSE, result) \/ TaskResume(id, result)
        /\ Len(_protobuf_log'._records) > Len(_protobuf_log._records)

\* C8 as stated: after a reset with tasks in flight, a task of the old
\* session can still complete and append its record to the cleared
\* accumulator.
C8_OldTaskCanStillAppend ==
    (/\ last.op = "reset"
     /\ \E id \in DOMAIN tasks : tasks[id].pc # "done")
        => ENABLED OldTaskAppends

\* C8 as amended: no task of an old session ever appends a record: every
\* record of the log was made by a task scheduled since the last reset, and
\* while no event was accepted since the reset the accumulator stays
\* all-zero with an empty log.
C8_NoRecordFromOldSession ==
    /\ \A i \in 1 .. Len(logEv) : ~logEv[i].old
    /\ accepted = 0 =>
          /\ get_stats(_protobuf_log).total_messages = 0
          /\ get_stats(_protobuf_log).downstream_bytes = 0
          /\ get_stats(_protobuf_log).upstream_bytes = 0
          /\ _protobuf_log._records = <<>>

\* After a reset and with no event since, a task that was in flight at the
\* reset has been run by the loop and has ended cancelled.
C8_Witness ==
    /\ everReset
    /\ accepted = 0
    /\ last.op = "task"
    /\ last.outcome = "cancelled"

\* C9: right after reset the previous timestamp is absent, counts and
\* latencies are empty, the accumulator is all-zero with an empty log, the
\* session clock is the reading taken at the reset, the in-flight set is
\* empty and every unfinished task that was in the set has a cancellation
\* request.
C9_ResetClears ==
    [][last'.op = "reset" =>
          /\ _last_frame_time' = None
          /\ _frame_counts' = EmptyDict
          /\ _latencies' = EmptyDict
          /\ get_stats(_protobuf_log') =
                [downstream_count |-> 0, upstream_count |-> 0,
                 downstream_bytes |-> 0, upstream_bytes |-> 0,
                 total_messages |-> 0]
          /\ _protobuf_log'._records = <<>>
          /\ _session_start' = clock'
          /\ _pending_tasks' = {}
          /\ \A id \in _pending_tasks :
                /\ id \in DOMAIN tasks'
                /\ tasks[id].pc # "done" => tasks'[id].must_cancel]_vars

\* A reset has just returned; before it a record was logged and a task was
\* still in flight.
C9_Witness ==
    /\ last.op = "reset"
    /\ nCalls = 2
    /\ \E id \in DOMAIN tasks : tasks[id].must_cancel
    /\ \E id \in DOMAIN tasks : tasks[id].pc = "done"

\* C10: total_messages of get_stats is downstream_count + upstream_count,
\* also after records of direction 'control'.
C10_TotalIsSumOfTwoDirections ==
    LET stats == get_stats(_protobuf_log)
    IN  stats.total_messages = stats.downstream_count + stats.upstream_count

\* With binary logging disabled nothing is ever scheduled or recorded.
C11_DisabledSchedulesNothing ==
    ~config.enable_binary_logging =>
        /\ tasks = EmptyDict
        /\ _pending_tasks = {}
        /\ _protobuf_log = ProtobufMessageLog

\* C11: with binary logging disabled no task is ever scheduled, the
\* in-flight set stays empty and the accumulator stays all-zero; with it
\* enabled every call for an event the policy accepts schedules exactly one
\* task.
C11_OneTaskPerAcceptedEvent ==
    /\ C11_DisabledSchedulesNothing
    /\ (/\ config.enable_binary_logging
        /\ last.op = "on_push_frame"
        /\ ~PolicyRejects(config, last.frame))
          => /\ last.ev \in DOMAIN tasks
             /\ last.ev \in _pending_tasks
             /\ tasks[last.ev].pc = "scheduled"

\* A call of decode_protobuf on a payload has ended.
DecodeEnded ==
    /\ call.fn = "decode_protobuf"
    /\ call.pc \in {"returned", "raised"}
    /\ call.wire

\* C12 as stated: on a payload that does not parse as the wire format decode
\* raises nothing and returns the record of type "undecodable" whose
\* size_bytes is the length of the payload.
C12_ParseFailureIsUndecodable ==
    (DecodeEnded /\ ~call.proto.parses)
        => /\ call.pc = "returned"
           /\ call.result = [type |-> "undecodable",
                             size_bytes |-> WireLen(call.payload)]

\* C12 as amended: on a payload that does not parse decode raises nothing
\* and returns the record of type "unknown" whose size_bytes is the length
\* of the payload.
C12_ParseFailureIsUnknown ==
    (DecodeEnded /\ ~call.proto.parses)
        => /\ call.pc = "returned"
           /\ call.result = [type |-> "unknown",
                             size_bytes |-> WireLen(call.payload)]

\* decode has returned for a payload whose second piece is no field, after a
\* text field that parsed.
C12_Witness ==
    /\ DecodeEnded
    /\ ~call.proto.parses
    /\ Len(call.payload) = 2
    /\ call.payload[1] = Chunk("field", 1, <<InnerField(3, "bytes", 0, "hi")>>)
    /\ call.result.size_bytes = 7

\* A payload that parses with none of the four fields set, the 0-byte
\* payload included, yields type "empty" with size_bytes the length of the
\* payload.
C13_NoFieldIsEmpty ==
    (DecodeEnded /\ call.proto.parses /\ call.proto.has = {}) =>
        /\ call.pc = "returned"
        /\ call.result = [type |-> "empty",
                          size_bytes |-> WireLen(call.payload)]

\* C13: decode is total: for every payload it returns a record and raises
\* nothing, and a payload with no field set yields type "empty".
C13_DecodeIsTotal ==
    /\ DecodeEnded => call.pc = "returned"
    /\ C13_NoFieldIsEmpty

\* C14: decode looks at the fields in the order text, transcription, audio,
\* message and returns the record of the first one that is set: with
\* several fields set the record is that of the first in this order and
\* carries no field of the others.
C14_FirstFieldWins ==
    (/\ call.fn = "decode_protobuf"
     /\ call.pc = "returned"
     /\ call.proto.parses
     /\ call.proto.has # {})
        => LET p == call.proto
               res == call.result
           IN  IF "text" \in p.has
               THEN res = [type |-> "text", text |-> p.text]
               ELSE IF "transcription" \in p.has
               THEN /\ res.type = "transcription"
                    /\ res.text = p.text
                    /\ DOMAIN res = IF p.user_id # ""
                                    THEN {"type", "text", "user_id"}
                                    ELSE {"type", "text"}
                    /\ p.user_id # "" => res.user_id = p.user_id
               ELSE IF "audio" \in p.has
               THEN res = [type |-> "audio", size_bytes |-> p.audio_len,
                           sample_rate |-> p.sample_rate]
               ELSE /\ res.type = "message"
                    /\ DOMAIN res = {"type", "data"}

\* decode has returned for a message with transcription, audio and message
\* set and text not set.
C14_Witness ==
    /\ call.fn = "decode_protobuf"
    /\ call.pc = "returned"
    /\ call.proto.has = {"transcription", "audio", "message"}
    /\ call.proto.user_id = "u1"
    /\ call.result.type = "transcription"

\* C15: decoding a payload that represents the text X returns exactly the
\* record {type: "text", text: X}, for every X, the empty string included.
C15_TextRoundTrip ==
    \A id \in {0, 7}, name \in {"", "TextFrame#0"}, X \in SampleTexts :
        (DecodeEnded /\ call.payload = TextPayload(id, name, X))
            => /\ call.pc = "returned"
               /\ call.result = [type |-> "text", text |-> X]

\* decode has returned for the payload of a text frame whose text is empty
\* and so is not written on the wire.
C15_Witness ==
    /\ DecodeEnded
    /\ call.payload = TextPayload(7, "", "")
    /\ Len(call.payload[1].sub) = 1
    /\ call.result.text = ""

\* What one call of record does to the counters: the count of its direction
\* goes up by one and its byte total by the size, no other counter moves,
\* and the log grows by one entry at its end.
RecordCounts ==
    LET d == call'.direction
    IN  /\ _protobuf_log'._counts[d] = Get(_protobuf_log._counts, d, 0) + 1
        /\ _protobuf_log'._bytes[d] = Get(_protobuf_log._bytes, d, 0) + call'.size
        /\ \A k \in DOMAIN _protobuf_log'._counts \ {d} :
              /\ k \in DOMAIN _protobuf_log._counts
              /\ _protobuf_log'._counts[k] = _protobuf_log._counts[k]
              /\ _protobuf_log'._bytes[k] = _protobuf_log._bytes[k]
        /\ Len(_protobuf_log'._records) = Len(_protobuf_log._records) + 1
        /\ SubSeq(_protobuf_log'._records, 1, Len(_protobuf_log._records)) =
              _protobuf_log._records

\* The entry a call of record appends holds the direction, the raw size
\* under the key `sizeKey`, and every field of decoded, and nothing else.
RecordEntry(r, sizeKey) ==
    /\ DOMAIN r = {"direction", sizeKey} \cup DOMAIN call'.decoded
    /\ r.direction = call'.direction
    /\ r[sizeKey] = call'.size
    /\ \A k \in DOMAIN call'.decoded : r[k] = call'.decoded[k]

\* C16 as stated: record moves the counters of its direction alone and
\* appends one entry with the direction, the raw size under size_bytes and
\* every field of decoded.
C16_RecordStoresSizeBytes ==
    [][call'.fn = "record" =>
          /\ RecordCounts
          /\ RecordEntry(_protobuf_log'._records[Len(_protobuf_log'._records)],
                         "size_bytes")]_vars

\* C16 as amended: the same, with the raw size under the key size.
C16_RecordStoresSize ==
    [][call'.fn = "record" =>
          /\ RecordCounts
          /\ RecordEntry(_protobuf_log'._records[Len(_protobuf_log'._records)],
                         "size")]_vars

\* An audio message was recorded upstream after another record: its entry
\* has the raw size under size and the size of the audio under size_bytes.
C16_Witness ==
    /\ call.fn = "record"
    /\ call.direction = "upstream"
    /\ call.decoded.type = "audio"
    /\ Len(_protobuf_log._records) = 2
    /\ _protobuf_log._records[2].size = 8
    /\ _protobuf_log._records[2].size_bytes = 2
    /\ _protobuf_log._bytes.upstream = 8

\* C17: get_stats after clear, with no record in between, reports zero for
\* every counter and the log is empty, whatever was recorded before the
\* clear, records of direction 'control' included.
C17_StatsAfterClearAreZero ==
    (call.fn \in {"clear", "get_stats"} /\ call.cleared) =>
        /\ get_stats(_protobuf_log) =
              [downstream_count |-> 0, upstream_count |-> 0,
               downstream_bytes |-> 0, upstream_bytes |-> 0,
               total_messages |-> 0]
        /\ call.fn = "get_stats" => call.result = get_stats(_protobuf_log)
        /\ _protobuf_log._records = <<>>

\* get_stats has been called after a clear that wiped a 'control' record
\* and a 'downstream' record.
C17_Witness ==
    /\ call.fn = "get_stats"
    /\ call.cleared
    /\ "control" \in DOMAIN call.before
    /\ call.before["control"] = 1
    /\ call.before["downstream"] = 1
    /\ call.result.total_messages = 0

\* C18: within a session, from one state to the next and as long as the
\* accumulator is not cleared, neither byte total that get_stats reports
\* decreases, whatever the observer records.
C18_ByteTotalsNeverDecrease ==
    [][last'.op # "reset" =>
          /\ get_stats(_protobuf_log').downstream_bytes >=
                get_stats(_protobuf_log).downstream_bytes
          /\ get_stats(_protobuf_log').upstream_bytes >=
                get_stats(_protobuf_log).upstream_bytes]_vars

\* A task has recorded a second message of the same direction.
C18_Witness ==
    /\ last.op = "task"
    /\ last.outcome = "decoded"
    /\ Len(_protobuf_log._records) = 2
    /\ _protobuf_log._records[1].direction = "downstream"
    /\ _protobuf_log._records[2].direction = "downstream"
    /\ get_stats(_protobuf_log).downstream_bytes = 12

\* C19: should_capture_frame changes nothing and its result depends on the
\* policy flags and the class of the frame alone: false if the policy is
\* disabled, false for an audio-class frame with audio capture off, false
\* for a text-class frame with text capture off, true in every other case.
C19_ShouldCaptureIsPure ==
    [][(call'.fn = "should_capture_frame" /\ call'.pc = "returned") =>
          /\ call'.result = ~PolicyRejects(config, call'.frame)
          /\ call'.result =
                (/\ config.enabled
                 /\ call'.frame \in _AUDIO_FRAMES => config.enable_audio_capture
                 /\ call'.frame \in _TEXT_FRAMES => config.enable_text_capture)
          /\ UNCHANGED <<config, observerVars>>]_vars

\* The call has returned false for a text frame under an enabled policy
\* that captures audio and not text.
C19_Witness ==
    /\ call.fn = "should_capture_frame"
    /\ call.pc = "returned"
    /\ call.frame = "LLMTextFrame"
    /\ config.enabled
    /\ config.enable_audio_capture
    /\ ~config.enable_text_capture
    /\ call.result = FALSE

\* The part of C20 about the keys and the counts: get_latency_stats has an
\* entry for exactly the categories with at least one sample, and its count
\* is the number of samples.
C20_CountsAndKeys ==
    (call.fn = "get_latency_stats" /\ call.pc = "returned") =>
        /\ DOMAIN call.result =
              {c \in DOMAIN _latencies : Len(_latencies[c]) >= 1}
        /\ \A c \in DOMAIN call.result :
              call.result[c].count = Len(_latencies[c])

\* C20: get_latency_stats has an entry for exactly the categories with at
\* least one sample, with count the number of samples and
\* min_ms <= avg_ms <= max_ms.
C20_LatencyStats ==
    /\ C20_CountsAndKeys
    /\ (call.fn = "get_latency_stats" /\ call.pc = "returned") =>
          \A c \in DOMAIN call.result :
              /\ FloatLeq(call.result[c].min_ms, call.result[c].avg_ms)
              /\ FloatLeq(call.result[c].avg_ms, call.result[c].max_ms)

-----------------------------------------------------------------------------
\* A session in which the owner of the observer also queries it (lines
\* 242-281) and keeps and changes a mapping get_frame_counts returned.

\* A variant that hands out the observer's own dict.
get_frame_counts_alias == [shared |-> TRUE, items |-> EmptyDict]

\* Line 243: dict(self._frame_counts) is a new dict with the items the
\* observer's dict has at the call.  `shared` tells whether the object
\* returned is the observer's own dict, which this one never is.
get_frame_counts == [shared |-> FALSE, items |-> _frame_counts]

\* The items of a mapping get_frame_counts returned, as its holder reads them
\* now.
Returned(result) ==
    IF result.shared THEN _frame_counts ELSE result.items

\* counts = observer.get_frame_counts()
GetFrameCountsCall ==
    /\ call' = [fn |-> "get_frame_counts", pc |-> "returned",
                result |-> get_frame_counts]
    /\ UNCHANGED <<config, clock, _last_frame_time, _frame_counts, _latencies,
                   _pending_tasks, _session_start, _protobuf_log, tasks,
                   nCalls, everReset, accepted, logEv, last>>

\* The holder of a returned mapping writes counts["caller"] = 1 into it.
WriteReturned ==
    /\ call.fn = "get_frame_counts"
    /\ "caller" \notin DOMAIN Returned(call.result)
    /\ IF call.result.shared
       THEN /\ _frame_counts' = Put(_frame_counts, "caller", 1)
            /\ UNCHANGED call
       ELSE /\ call' = [call EXCEPT
                           !.result.items = Put(call.result.items, "caller", 1)]
            /\ UNCHANGED _frame_counts
    /\ UNCHANGED <<config, clock, _last_frame_time, _latencies,
                   _pending_tasks, _session_start, _protobuf_log, tasks,
                   nCalls, everReset, accepted, logEv, last>>

\* A variant whose queries empty the accumulator once it is reported.
QueryCall_clears_log(fn) ==
    /\ call' = [fn |-> fn, pc |-> "returned"]
    /\ _protobuf_log' = clear(_protobuf_log)
    /\ UNCHANGED <<config, clock, _last_frame_time, _frame_counts, _latencies,
                   _pending_tasks, _session_start, tasks,
                   nCalls, everReset, accepted, logEv, last>>

\* get_latency_stats(), get_summary() and print_summary() read the counts,
\* the latency sequences and the accumulator and assign no field; what
\* get_latency_stats computes is the subject of StatsSpec.
QueryCall(fn) ==
    /\ call' = [fn |-> fn, pc |-> "returned"]
    /\ UNCHANGED <<config, clock, _last_frame_time, _frame_counts, _latencies,
                   _pending_tasks, _session_start, _protobuf_log, tasks,
                   nCalls, everReset, accepted, logEv, last>>

Queries == {"get_latency_stats", "get_summary", "print_summary"}

\* The observer is constructed with the default policy.
SessionInit ==
    /\ PipelineObserver(DefaultConfig)
    /\ call = NoCall

SessionNext ==
    \/ Next
    \/ GetFrameCountsCall
    \/ WriteReturned
    \/ \E fn \in Queries : QueryCall(fn)

SessionSpec == SessionInit /\ [][SessionNext]_vars

-----------------------------------------------------------------------------
\* C21: get_frame_counts returns a snapshot copy.  The mapping returned has
\* the observer's counts of the moment of the call; a write of its holder
\* into it leaves the observer's counts unchanged; and a later call of
\* on_push_frame or of reset leaves the items of a mapping returned earlier
\* unchanged.
C21_ReturnedIsSnapshot ==
    [][/\ GetFrameCountsCall => (Returned(call.result))' = _frame_counts
       /\ WriteReturned => _frame_counts' = _frame_counts
       /\ (/\ call.fn = "get_frame_counts"
           /\ \/ \E data \in FramePushed, now \in TimeReadings :
                    on_push_frame(data, now)
              \/ \E now \in TimeReadings : reset(now))
          => (Returned(call.result))' = Returned(call.result)]_vars

\* A mapping returned after one text frame, written to by its holder, and a
\* second text frame counted by the observer since.
C21_Witness ==
    /\ call.fn = "get_frame_counts"
    /\ call.result.items = Put(Put(EmptyDict, "TextFrame", 1), "caller", 1)
    /\ _frame_counts = Put(EmptyDict, "TextFrame", 2)

\* C22: reset can be called in every state, and a reset at which the loop
\* holds no task of the observer leaves every field that on_push_frame, the
\* background tasks and the queries read as the constructor leaves it for
\* the same policy (only the session clock differs), so that what follows
\* the reset is what follows the construction.
C22_ResetReturnsToConstructed ==
    /\ []ENABLED (\E now \in TimeReadings : reset(now))
    /\ [][((\E now \in TimeReadings : reset(now)) /\ tasks = EmptyDict)
             => (ConstructedFields(config))']_vars

\* Every event is accepted and recorded; a first event, then a reset, then
\* a second event, which is counted once, has no latency sample and is the
\* only record of the log.
C22_Witness ==
    /\ config.enabled /\ config.enable_audio_capture
    /\ config.enable_text_capture /\ config.enable_timing_metrics
    /\ everReset
    /\ nCalls = 2
    /\ accepted = 1
    /\ _frame_counts = Put(EmptyDict, "TextFrame", 1)
    /\ _latencies = EmptyDict
    /\ get_stats(_protobuf_log).total_messages = 1
    /\ logEv = <<[ev |-> 2, old |-> FALSE]>>

\* C23: the stored statistics have bounded growth.  A store whose size does
\* not follow the length of the session holds, when a session without reset
\* has run to its last event, fewer latency samples than the accepted
\* events after the first, and fewer records than accepted events.
C23_StoreSmallerThanSession ==
    (~everReset /\ accepted = MaxEvents)
        => /\ TotalSamples(_latencies) < accepted - 1
           /\ Len(_protobuf_log._records) < accepted

-----------------------------------------------------------------------------
\* A session in which the owner of the observer switches
\* config.enable_timing_metrics between events.  ObservabilityConfig is a
\* plain dataclass: its fields can be assigned after construction, and
\* on_push_frame reads self.config anew at every call.

\* observer.config.enable_timing_metrics = value
SetTimingMetrics(value) ==
    /\ config.enable_timing_metrics # value
    /\ config' = [config EXCEPT !.enable_timing_metrics = value]
    /\ last' = Outcome("set_enable_timing_metrics", 0, "", "returned", 0)
    /\ UNCHANGED <<clock, _last_frame_time, _frame_counts, _latencies,
                   _pending_tasks, _session_start, _protobuf_log, tasks,
                   nCalls, everReset, accepted, logEv, call>>

\* The default policy without binary logging, so that the readings of the
\* clock vary, with timing metrics enabled or not at the start.
TimingConfigs ==
    {[DefaultConfig EXCEPT !.enable_binary_logging = FALSE,
                           !.enable_timing_metrics = t] : t \in BOOLEAN}

TimingInit ==
    /\ \E cfg \in TimingConfigs : PipelineObserver(cfg)
    /\ call = NoCall

\* One event more than in the sessions with background tasks: an event
\* before the one that is accepted with timing metrics disabled.
TimingNext ==
    \/ /\ nCalls < MaxEvents + 1
       /\ \E data \in FramePushed, now \in TimeReadings :
             on_push_frame(data, now)
    \/ \E value \in BOOLEAN : SetTimingMetrics(value)
    \/ \E now \in TimeReadings : reset(now)

TimingSpec == TimingInit /\ [][TimingNext]_vars

\* C24: every accepted event advances the previous timestamp to the reading
\* of the clock it took, with timing metrics enabled or not; accepted with
\* timing metrics disabled it stores no latency sample; accepted with timing
\* metrics enabled after another accepted event of the session it stores
\* the time since that event, the last one accepted (whose reading `clock`
\* keeps), whether or not that event stored a sample itself.
C24_TimestampAdvancesRegardless ==
    [][\A data \in FramePushed, now \in TimeReadings :
          (on_push_frame(data, now) /\ ~PolicyRejects(config, data.frame))
             => /\ _last_frame_time' = Some(now)
                /\ ~config.enable_timing_metrics => _latencies' = _latencies
                /\ (config.enable_timing_metrics /\ accepted >= 1)
                      => _latencies' =
                            AppendLatency(_latencies, data.frame,
                                          (now - clock) * 1000)]_vars

\* Three accepted text frames; the third has just been accepted with timing
\* metrics enabled at reading 1 and its sample, 0 ms, is the only one: the
\* second was accepted at reading 1 with timing metrics disabled.
C24_Witness ==
    /\ last.op = "on_push_frame"
    /\ last.ev = 3
    /\ accepted = 3
    /\ config.enable_timing_metrics
    /\ clock = 1
    /\ _latencies = Put(EmptyDict, "TextFrame", <<0>>)
    /\ _frame_counts = Put(EmptyDict, "TextFrame", 3)

-----------------------------------------------------------------------------
\* The observer on a loop that keeps running: a task that is ready to start
\* is started and a done callback that is due is run (asyncio runs the ready
\* queue in order), and every serializer call that a task awaits returns.

LoopRunsReady ==
    \/ \E id \in DOMAIN tasks, suspends \in BOOLEAN,
          result \in SerializeResults : TaskStart(id, suspends, result)
    \/ \E id \in DOMAIN tasks : DoneCallback(id)

SerializerReturns ==
    \E id \in DOMAIN tasks, result \in SerializeResults : TaskResume(id, result)

FairSpec ==
    Spec /\ WF_vars(LoopRunsReady) /\ WF_vars(SerializerReturns)

\* C25 as stated: a task that is scheduled and not yet done is in the
\* in-flight set, a done task leaves the set when its done callback runs,
\* and in the end the set is empty.
C25_InFlightUntilDone ==
    /\ [](\A id \in DOMAIN tasks : tasks[id].pc # "done" => id \in _pending_tasks)
    /\ [][\A id \in DOMAIN tasks : DoneCallback(id) => id \notin _pending_tasks']_vars
    /\ <>[](_pending_tasks = {})

\* C25 as amended: a task that is scheduled, not yet done and was not there
\* at a reset is in the in-flight set; the set holds only tasks of the loop;
\* the done callback of a done task can always run and the task is not in
\* the set after it, however the task ended; a reset empties the set; and
\* in the end the set is empty.
C25_InFlightUntilDoneOrReset ==
    /\ [](\A id \in DOMAIN tasks :
             (tasks[id].pc # "done" /\ ~tasks[id].old) => id \in _pending_tasks)
    /\ [](_pending_tasks \subseteq DOMAIN tasks)
    /\ [](\A id \in DOMAIN tasks :
             tasks[id].pc = "done" => ENABLED DoneCallback(id))
    /\ [][\A id \in DOMAIN tasks : DoneCallback(id) => id \notin _pending_tasks']_vars
    /\ [][(\E now \in TimeReadings : reset(now)) => _pending_tasks' = {}]_vars
    /\ <>[](_pending_tasks = {})

\* The done callback of the first task has just removed it from the set,
\* while the second task, awaiting the serializer, is still a member.
C25_Witness ==
    /\ last.op = "callback"
    /\ ~everReset
    /\ _pending_tasks = {2}
    /\ tasks[2].pc = "awaiting"

-----------------------------------------------------------------------------
\* C26: the log is in the order in which the tasks complete.  Every step
\* that lengthens the log is the step in which one task ends, and it puts
\* that task's record last; and while two tasks of the session await the
\* serializer, the one scheduled later can end first.
C26_LogOrderIsCompletionOrder ==
    /\ [][Len(_protobuf_log'._records) > Len(_protobuf_log._records)
             => \E id \in DOMAIN tasks :
                   /\ tasks[id].pc # "done"
                   /\ tasks' = [tasks EXCEPT ![id].pc = "done"]
                   /\ logEv' = Append(logEv, [ev |-> id, old |-> tasks[id].old])
                   /\ Len(_protobuf_log'._records) = Len(logEv')
                   /\ _protobuf_log'._records[Len(logEv')].direction =
                         tasks[id].direction_label]_vars
    /\ [](\A a, b \in DOMAIN tasks :
             (/\ a < b
              /\ tasks[a].pc = "awaiting" /\ ~tasks[a].must_cancel
              /\ tasks[b].pc = "awaiting" /\ ~tasks[b].must_cancel)
                => ENABLED (/\ \E result \in SerializeResults :
                                  TaskResume(b, result)
                            /\ logEv' = Append(logEv, [ev |-> b, old |-> FALSE])))

\* Event 1, an audio frame going downstream, then event 2, a text frame
\* going upstream, both accepted: the log holds the record of event 2
\* before the record of event 1.
C26_Witness ==
    /\ logEv = <<[ev |-> 2, old |-> FALSE], [ev |-> 1, old |-> FALSE]>>
    /\ Len(_protobuf_log._records) = 2
    /\ _protobuf_log._records[1].direction = "upstream"
    /\ _protobuf_log._records[2].direction = "downstream"
    /\ _frame_counts = Put(Put(EmptyDict, "OutputAudioRawFrame", 1),
                           "TextFrame", 1)

-----------------------------------------------------------------------------
\* C27: record is called once for an event whose serialization gives a
\* non-empty result and whose task is not cancelled, and not at all
\* otherwise: the step in which a task's body ends lengthens the log by one
\* in the first case and leaves it in the second, and no two records of the
\* log are of the same event.
C27_OneRecordPerSerializedEvent ==
    /\ [](\A i, j \in 1 .. Len(logEv) : logEv[i].ev = logEv[j].ev => i = j)
    /\ [][\A id \in DOMAIN tasks, result \in SerializeResults :
             (TaskStart(id, FALSE, result) \/ TaskResume(id, result))
                => Len(_protobuf_log'._records) =
                      Len(_protobuf_log._records) +
                         (IF result.kind = "bytes" /\ ~tasks[id].must_cancel
                          THEN 1 ELSE 0)]_vars

-----------------------------------------------------------------------------
\* C28: the log is append-only between clears.  In every step that is not
\* a call of clear or of reset, the log before the step is a prefix of the
\* log after it: every record is where it was and as it was.
C28_LogIsAppendOnly ==
    [][~(ClearCall \/ \E now \in TimeReadings : reset(now))
          => /\ Len(_protobuf_log'._records) >= Len(_protobuf_log._records)
             /\ SubSeq(_protobuf_log'._records, 1,
                       Len(_protobuf_log._records)) =
                   _protobuf_log._records]_vars

\* get_stats has been called on a log of two records, an audio record
\* after a text record, the second appended behind the first.
C28_Witness ==
    /\ call.fn = "get_stats"
    /\ Len(_protobuf_log._records) = 2
    /\ _protobuf_log._records[1].type = "text"
    /\ _protobuf_log._records[2].type = "audio"

-----------------------------------------------------------------------------
\* C29: a step that changes the counts, the latency sequences or the
\* previous timestamp is a call of on_push_frame or of reset; a step that
\* changes the accumulator is a step of a background task or a call of
\* reset; and a call of get_frame_counts, get_latency_stats, get_summary or
\* print_summary changes none of the four.
C29_WritersOfStatistics ==
    [][/\ <<_frame_counts, _latencies, _last_frame_time>>' #
             <<_frame_counts, _latencies, _last_frame_time>>
          => \/ \E data \in FramePushed, now \in TimeReadings :
                   on_push_frame(data, now)
             \/ \E now \in TimeReadings : reset(now)
       /\ _protobuf_log' # _protobuf_log
          => \/ \E id \in DOMAIN tasks, suspends \in BOOLEAN,
                   result \in SerializeResults :
                      TaskStart(id, suspends, result) \/ TaskResume(id, result)
             \/ \E now \in TimeReadings : reset(now)
       /\ (GetFrameCountsCall \/ \E fn \in Queries : QueryCall(fn))
          => UNCHANGED <<_frame_counts, _latencies, _last_frame_time,
                         _protobuf_log>>]_vars

\* print_summary has returned in a session with two text frames counted,
\* one latency sample and one record.
C29_Witness ==
    /\ call.fn = "print_summary"
    /\ _frame_counts = Put(EmptyDict, "TextFrame", 2)
    /\ _latencies = Put(EmptyDict, "TextFrame", <<0>>)
    /\ _last_frame_time = Some(0)
    /\ Len(_protobuf_log._records) = 1

-----------------------------------------------------------------------------
\* PipelineObserver._extract_content, lines 106-131, called on its own.

\* s[:n] of Python for a string s and an integer n.
Slice(s, n) ==
    IF n >= 0
    THEN SubSeq(s, 1, IF n < Len(s) THEN n ELSE Len(s))
    ELSE SubSeq(s, 1, IF Len(s) + n > 0 THEN Len(s) + n ELSE 0)

\* A variant that counts the first character of the marker in the limit.
Truncate_counts_marker(s, limit) ==
    IF Len(s) > limit THEN Slice(s, limit - 1) \o "..." ELSE s

\* Lines 111-112 and 125-126: if len(s) > limit: s = s[:limit] + "..."
Truncate(s, limit) ==
    IF Len(s) > limit THEN Slice(s, limit) \o "..." ELSE s

\* f"{n / 1024:.1f}": n / 1024 is exact in a float, and the format rounds it
\* to one decimal, a tie to the even digit.
FormatKB(n) ==
    LET q == (n * 10) \div 1024
        r == (n * 10) % 1024
        tenths == IF 2 * r > 1024 \/ (2 * r = 1024 /\ q % 2 = 1)
                  THEN q + 1 ELSE q
    IN  ToString(tenths \div 10) \o "." \o ToString(tenths % 10)

\* json.dumps of one value of a message: an int, a plain string, or an
\* object json cannot serialize.
DumpValue(v) ==
    IF v.kind = "int" THEN ToString(v.n) ELSE "\"" \o v.s \o "\""

\* The items of a dict, joined by "," with ":" between key and value.
RECURSIVE DumpItems(_)
DumpItems(items) ==
    IF items = <<>> THEN ""
    ELSE "\"" \o items[1].key \o "\":" \o DumpValue(items[1].value)
         \o (IF Len(items) > 1 THEN "," ELSE "")
         \o DumpItems(Tail(items))

\* json.dumps(message, separators=(",", ":")) of a dict given by its items
\* in order; TypeError on a value that is not serializable.
json_dumps(items) ==
    IF \E i \in 1 .. Len(items) : items[i].value.kind = "object"
    THEN Raises("TypeError")
    ELSE [ok |-> "{" \o DumpItems(items) \o "}"]

\* The content returned: a string, or None.
Content(s) == [content |-> Some(s)]

NoContent == [content |-> None]

_extract_content(self, frame) ==
    IF frame.text.kind = "int" THEN Raises("TypeError")
    ELSE IF frame.text.kind = "str" /\ frame.text.s # ""
    THEN Content("\"" \o Truncate(frame.text.s, self.truncate_text_at) \o "\"")
    ELSE IF frame.cls \in {"InputAudioRawFrame", "OutputAudioRawFrame"}
            /\ frame.audio # None
    THEN Content("[" \o FormatKB(Value(frame.audio)) \o "KB @ "
                 \o ToString(frame.sample_rate) \o "Hz]")
    ELSE IF frame.message.kind = "dict"
    THEN LET compact == json_dumps(frame.message.items)
         IN  IF IsRaise(compact) THEN NoContent
             ELSE Content(Truncate(compact.ok, self.truncate_text_at))
    ELSE NoContent

\* Largest small value of truncate_text_at in the calls.
MaxTruncateAt == 5

\* The values of config.truncate_text_at: the small ones and the default.
TruncateLimits == (0 .. MaxTruncateAt) \cup {DefaultTruncateTextAt}

Absent == [kind |-> "absent"]

Str(s) == [kind |-> "str", s |-> s]

Item(key, value) == [key |-> key, value |-> value]

\* A frame as _extract_content reads it: its class and its attributes
\* text, audio, sample_rate and message.
ContentFrame(cls, text, audio, sample_rate, message) ==
    [cls |-> cls, text |-> text, audio |-> audio,
     sample_rate |-> sample_rate, message |-> message]

ContentTexts == {"", "hi", "hello", "hello world", "...", "a...b"}

ContentMessages ==
    {<<>>,
     <<Item("a", [kind |-> "int", n |-> 1])>>,
     <<Item("type", Str("x")), Item("n", [kind |-> "int", n |-> 12])>>,
     <<Item("o", [kind |-> "object"])>>}

\* Text frames with each text and with a text that is not a string; audio
\* frames with no audio, empty audio and audio of 320 and 1536 bytes;
\* message frames with each dict and with a message that is not a dict; a
\* frame with none of the attributes; and a frame with a text and a message.
ContentFrames ==
    {ContentFrame("TextFrame", Str(s), None, 0, Absent) : s \in ContentTexts}
    \cup {ContentFrame("TextFrame", [kind |-> "int"], None, 0, Absent)}
    \cup {ContentFrame("OutputAudioRawFrame", Absent, a, 16000, Absent) :
             a \in {None, Some(0), Some(320), Some(1536)}}
    \cup {ContentFrame("OutputTransportMessageFrame", Absent, None, 0,
                       [kind |-> "dict", items |-> items]) :
             items \in ContentMessages}
    \cup {ContentFrame("OutputTransportMessageFrame", Absent, None, 0,
                       Str("ping")),
          ContentFrame("EndFrame", Absent, None, 0, Absent),
          ContentFrame("CustomFrame", Str("hello world"), None, 0,
                       [kind |-> "dict", items |-> <<>>])}

\* self._extract_content(frame) runs: it returns a content or None, or ends
\* by an exception.
ExtractContentReturn ==
    /\ call.fn = "_extract_content"
    /\ call.pc = "called"
    /\ LET result == _extract_content(config, call.frame)
       IN  call' = [fn |-> call.fn, frame |-> call.frame,
                    pc |-> IF IsRaise(result) THEN "raised" ELSE "returned",
                    result |-> result]
    /\ UNCHANGED <<config, clock, _last_frame_time, _frame_counts, _latencies,
                   _pending_tasks, _session_start, _protobuf_log, tasks,
                   nCalls, everReset, accepted, logEv, last>>

ContentInit ==
    /\ \E limit \in TruncateLimits :
          PipelineObserver([DefaultConfig EXCEPT !.truncate_text_at = limit])
    /\ call \in {[fn |-> "_extract_content", pc |-> "called", frame |-> f] :
                    f \in ContentFrames}

ContentNext == ExtractContentReturn

ContentSpec == ContentInit /\ [][ContentNext]_vars

-----------------------------------------------------------------------------
\* The call of _extract_content has returned for a frame with a non-empty
\* text.
TextExtracted ==
    /\ call.fn = "_extract_content"
    /\ call.pc = "returned"
    /\ call.frame.text.kind = "str"
    /\ call.frame.text.s # ""

\* The call of _extract_content has returned for a frame with no text and
\* no audio and with a dict that json.dumps renders.
MessageExtracted ==
    /\ call.fn = "_extract_content"
    /\ call.pc = "returned"
    /\ call.frame.text.kind = "absent"
    /\ call.frame.audio = None
    /\ call.frame.message.kind = "dict"
    /\ ~IsRaise(json_dumps(call.frame.message.items))

\* C30 as stated: content no longer than truncate_text_at is shown whole, a
\* text between quotes; longer content is cut and followed by the marker;
\* and of "hello world" with truncate_text_at = 5 the content is the quote,
\* "hell", the marker and the quote.
C30_KeepsHell ==
    LET limit == config.truncate_text_at
        Cut(s) == {SubSeq(s, 1, k) \o "..." : k \in 0 .. Len(s) - 1}
    IN
    /\ TextExtracted =>
          LET text == call.frame.text.s
          IN  /\ Len(text) <= limit
                    => call.result = Content("\"" \o text \o "\"")
              /\ Len(text) > limit
                    => \E c \in Cut(text) :
                          call.result = Content("\"" \o c \o "\"")
              /\ (limit = 5 /\ text = "hello world")
                    => call.result = Content("\"hell...\"")
    /\ MessageExtracted =>
          LET compact == json_dumps(call.frame.message.items).ok
          IN  /\ Len(compact) <= limit => call.result = Content(compact)
              /\ Len(compact) > limit
                    => \E c \in Cut(compact) : call.result = Content(c)

\* C30 as amended: content no longer than truncate_text_at is shown whole,
\* a text between quotes; of longer content the first truncate_text_at
\* characters are kept and followed by the marker; and of "hello world"
\* with truncate_text_at = 5 the content is the quote, "hello", the marker
\* and the quote.
C30_KeepsLimitCharacters ==
    LET limit == config.truncate_text_at
        Shown(s) == IF Len(s) <= limit THEN s
                    ELSE SubSeq(s, 1, limit) \o "..."
    IN
    /\ TextExtracted =>
          LET text == call.frame.text.s
          IN  /\ call.result = Content("\"" \o Shown(text) \o "\"")
              /\ Len(text) > limit
                    => Len(Value(call.result.content)) = limit + 5
              /\ (limit = 5 /\ text = "hello world")
                    => call.result = Content("\"hello...\"")
    /\ MessageExtracted =>
          LET compact == json_dumps(call.frame.message.items).ok
          IN  call.result = Content(Shown(compact))

\* _extract_content has returned for the text "hello world" with
\* truncate_text_at = 5: five characters of the text, the marker, quotes.
C30_Witness ==
    /\ TextExtracted
    /\ config.truncate_text_at = 5
    /\ call.frame.text.s = "hello world"
    /\ call.frame.message = Absent
    /\ call.result = Content("\"hello...\"")

-----------------------------------------------------------------------------
\* C31: the capture policy is immutable after construction: no step of a
\* session changes any of the six fields of config.
C31_PolicyNeverChanges ==
    [][config' = config]_vars

-----------------------------------------------------------------------------
\* C32: for a parsed message with transcription set and text not set,
\* decode returns the record of type "transcription" with the
\* transcription's text; the record has the key user_id, with the
\* transcription's user id, exactly when that user id is not empty, and it
\* has no other key.  So it is for a payload whose only member is a
\* transcription written with or without a user id.
C32_TranscriptionRecord ==
    /\ (/\ call.fn = "decode_protobuf"
        /\ call.pc \in {"returned", "raised"}
        /\ call.proto.parses
        /\ "transcription" \in call.proto.has
        /\ "text" \notin call.proto.has)
          => /\ call.pc = "returned"
             /\ call.result.type = "transcription"
             /\ call.result.text = call.proto.text
             /\ "user_id" \in DOMAIN call.result <=> call.proto.user_id # ""
             /\ "user_id" \in DOMAIN call.result
                   => call.result.user_id = call.proto.user_id
             /\ DOMAIN call.result \subseteq {"type", "text", "user_id"}
    /\ (DecodeEnded /\ call.payload =
           <<Chunk("field", 3, <<InnerField(3, "bytes", 0, "hi"),
                                 InnerField(4, "bytes", 0, "u1")>>)>>)
          => call.result = [type |-> "transcription", text |-> "hi",
                            user_id |-> "u1"]
    /\ (DecodeEnded /\ call.payload =
           <<Chunk("field", 3, <<InnerField(3, "bytes", 0, "hi")>>)>>)
          => call.result = [type |-> "transcription", text |-> "hi"]

\* decode has returned for a payload whose transcription has no user id:
\* the record has the keys type and text only.
C32_Witness ==
    /\ DecodeEnded
    /\ call.payload = <<Chunk("field", 3, <<InnerField(3, "bytes", 0, "hi")>>)>>
    /\ call.proto.has = {"transcription"}
    /\ call.proto.user_id = ""
    /\ call.result = [type |-> "transcription", text |-> "hi"]

-----------------------------------------------------------------------------
\* C33: for a parsed message with message set and none of text,
\* transcription and audio, decode does not raise and returns the record of
\* type "message" whose data is the parsed document when the inner payload
\* parses as JSON and the inner payload itself when it does not.
C33_MessageRecord ==
    (/\ call.fn = "decode_protobuf"
     /\ call.pc \in {"returned", "raised"}
     /\ call.proto.parses
     /\ call.proto.has = {"message"})
       => /\ call.pc = "returned"
          /\ DOMAIN call.result = {"type", "data"}
          /\ call.result.type = "message"
          /\ LET parsed == json_loads(call.proto.data)
             IN  IF parsed.ok THEN call.result.data = parsed.value
                 ELSE call.result.data = call.proto.data

-----------------------------------------------------------------------------
\* C34: a task that a reset cancelled before it started or while it awaited
\* the serializer never calls record.  Every task that was there at a reset
\* and is not done has a cancellation request; the step the loop then gives
\* such a task, whatever the serializer has to return, ends it cancelled
\* (the handler of line 149 does not get the exception) and leaves the
\* accumulator as it is.
C34_CancelledTaskNeverRecords ==
    /\ [](\A id \in DOMAIN tasks :
             /\ tasks[id].must_cancel => tasks[id].old
             /\ (tasks[id].old /\ tasks[id].pc # "done")
                   => tasks[id].must_cancel)
    /\ [][\A id \in DOMAIN tasks, suspends \in BOOLEAN,
             result \in SerializeResults :
             (/\ tasks[id].must_cancel
              /\ TaskStart(id, suspends, result) \/ TaskResume(id, result))
                => /\ _protobuf_log' = _protobuf_log
                   /\ tasks'[id].pc = "done"
                   /\ last'.outcome = "cancelled"]_vars

\* After a reset that found two tasks in flight: one has been given its
\* step and has ended cancelled, the other is still suspended in the
\* serializer call with its cancellation request, and the log is empty.
C34_Witness ==
    /\ last.op = "task"
    /\ last.outcome = "cancelled"
    /\ _protobuf_log._records = <<>>
    /\ \E id \in DOMAIN tasks :
          tasks[id].pc = "awaiting" /\ tasks[id].must_cancel
    /\ \E id \in DOMAIN tasks :
          tasks[id].pc = "done" /\ tasks[id].must_cancel

-----------------------------------------------------------------------------
\* The sum of the size fields of the records of a log.
RECURSIVE SumSizes(_)
SumSizes(records) ==
    IF records = <<>> THEN 0
    ELSE Head(records).size + SumSizes(Tail(records))

\* C35: in every state of the accumulator the log has as many records as
\* the counts of all directions add up to, 'control' and any other label
\* included, and the size fields of the records add up to the byte totals
\* of all directions.
C35_LogMatchesCounters ==
    /\ Len(_protobuf_log._records) = SumValues(_protobuf_log._counts)
    /\ SumSizes(_protobuf_log._records) = SumValues(_protobuf_log._bytes)

\* Two records in the log, the last of them of direction 'control', with
\* bytes counted.
C35_Witness ==
    /\ call.fn = "record"
    /\ call.direction = "control"
    /\ Len(_protobuf_log._records) = 2
    /\ Get(_protobuf_log._counts, "control", 0) = 1
    /\ SumValues(_protobuf_log._bytes) > 0

-----------------------------------------------------------------------------
\* C36: a reset affects only the tasks scheduled before it.  A task that
\* was scheduled after the resets so far carries no cancellation request
\* and, while it is not done, is in the in-flight set; a task leaves the
\* set only by its own done callback, which runs when it is done, or by a
\* reset that comes after its scheduling; and no step of a task of an old
\* session, its late done callback included, changes the set.
C36_ResetAffectsOnlyEarlierTasks ==
    /\ [](\A id \in DOMAIN tasks :
             ~tasks[id].old
                => /\ ~tasks[id].must_cancel
                   /\ tasks[id].pc # "done" => id \in _pending_tasks)
    /\ [][\A id \in _pending_tasks :
             id \notin _pending_tasks'
                => \/ /\ tasks[id].pc = "done"
                      /\ DoneCallback(id)
                   \/ \E now \in TimeReadings : reset(now)]_vars
    /\ [][\A id \in DOMAIN tasks :
             (/\ tasks[id].old
              /\ \/ DoneCallback(id)
                 \/ \E suspends \in BOOLEAN, result \in SerializeResults :
                       TaskStart(id, suspends, result) \/ TaskResume(id, result))
                => _pending_tasks' = _pending_tasks]_vars

\* Event 1 was accepted before a reset and event 2 after it.  The done
\* callback of task 1, the last step, has run after the reset, and task 2
\* is still in the set, awaiting the serializer with no cancellation
\* request.
C36_Witness ==
    /\ last.op = "callback"
    /\ everReset
    /\ nCalls = 2
    /\ accepted = 1
    /\ DOMAIN tasks = {2}
    /\ ~tasks[2].old
    /\ ~tasks[2].must_cancel
    /\ tasks[2].pc = "awaiting"
    /\ _pending_tasks = {2}

-----------------------------------------------------------------------------
\* C37: every record carries the direction label computed when its event
\* was observed.  The task an on_push_frame schedules holds 'downstream'
\* for a downstream event, 'upstream' for an upstream event and 'control'
\* for any other direction; no later step, of another event, of another
\* task or of a reset, changes the label a task holds; and the record a
\* task appends has that label as its direction.
C37_RecordCarriesObservedDirection ==
    /\ [][\A data \in FramePushed, now \in TimeReadings :
             (/\ on_push_frame(data, now)
              /\ nCalls + 1 \in DOMAIN tasks')
                => tasks'[nCalls + 1].direction_label =
                      CASE data.direction = "DOWNSTREAM" -> "downstream"
                        [] data.direction = "UPSTREAM" -> "upstream"
                        [] OTHER -> "control"]_vars
    /\ [][\A id \in DOMAIN tasks \cap DOMAIN tasks' :
             tasks'[id].direction_label = tasks[id].direction_label]_vars
    /\ [][\A id \in DOMAIN tasks :
             (/\ tasks[id].pc # "done"
              /\ tasks'[id].pc = "done"
              /\ Len(_protobuf_log'._records) > Len(_protobuf_log._records))
                => _protobuf_log'._records[Len(_protobuf_log'._records)]
                      .direction = tasks[id].direction_label]_vars

\* Event 1, a frame going neither way, was observed before event 2, a text
\* frame going upstream, whose task has not started; the task of event 1
\* has just decoded its bytes and its record says 'control'.
C37_Witness ==
    /\ last.op = "task"
    /\ last.outcome = "decoded"
    /\ logEv = <<[ev |-> 1, old |-> FALSE]>>
    /\ Len(_protobuf_log._records) = 1
    /\ _protobuf_log._records[1].direction = "control"
    /\ 2 \in DOMAIN tasks
    /\ tasks[2].pc = "scheduled"
    /\ tasks[2].direction_label = "upstream"

-----------------------------------------------------------------------------
\* C38: in every state of the observer every category of the frame-count
\* mapping has a count of at least 1; every category of the latency mapping
\* has at least one sample and is a category of the frame-count mapping;
\* and the latency samples number at most the accepted events of the
\* session minus one, none when no event was accepted.
C38_StatisticsAreConsistent ==
    /\ \A c \in DOMAIN _frame_counts : _frame_counts[c] >= 1
    /\ \A c \in DOMAIN _latencies :
          /\ Len(_latencies[c]) >= 1
          /\ c \in DOMAIN _frame_counts
    /\ TotalSamples(_latencies) <= (IF accepted = 0 THEN 0 ELSE accepted - 1)

\* Two events of different categories were accepted in a session that
\* began with a reset, and the second left the one latency sample.
C38_Witness ==
    /\ everReset
    /\ accepted = 2
    /\ Cardinality(DOMAIN _frame_counts) = 2
    /\ Cardinality(DOMAIN _latencies) = 1
    /\ TotalSamples(_latencies) = 1

====
